---- MODULE Spec2Model ----
(***************************************************************************)
(* State-machine model of the sales analytics engine (SalesAnalyzer in     *)
(* sales_analyzer.py) and of the parts of the desktop application          *)
(* (app_ui.py) that read or replace the analyzer's table.                  *)
(*                                                                         *)
(* Column names are transliterated:                                        *)
(*   orderId, date, year, month, day, quarter, category, subcategory,      *)
(*   product, qty, discount, total, custId, province, city                 *)
(* and the derived columns the engine writes onto the table:               *)
(*   hasDiscount, discountBucket, festival.                                *)
(* Money is in whole units, discount rates are in percent (100 = none).    *)
(* Strings produced by formatting are sequences of character codes.        *)
(***************************************************************************)
EXTENDS Integers, Sequences, FiniteSets, TLC

VARIABLES df, loaded, reloaded, result, prophetAvailable, worker

vars == <<df, loaded, reloaded, result, prophetAvailable, worker>>

-----------------------------------------------------------------------------
(* Bounds of the model.                                                    *)

MaxRows == 4

MaxPeriods == 25

MaxWorkers == 2

MaxClusters == 4

-----------------------------------------------------------------------------
(* Generic helpers.                                                        *)

Range(s) == {s[i] : i \in DOMAIN s}

RECURSIVE SumField(_, _)
SumField(s, field) ==
    IF s = <<>> THEN 0 ELSE s[1][field] + SumField(Tail(s), field)

(* ascending order of a finite set of integers *)
RECURSIVE SortInts(_)
SortInts(S) ==
    IF S = {} THEN <<>>
    ELSE LET m == CHOOSE x \in S : \A y \in S : x <= y
         IN  <<m>> \o SortInts(S \ {m})

(* the elements of S in ascending order of an injective integer key *)
SortBy(S, Key(_)) ==
    LET ks == SortInts({Key(x) : x \in S})
    IN  [i \in 1..Len(ks) |-> CHOOSE x \in S : Key(x) = ks[i]]

(* the subsequences of s (order kept) of at most n elements *)
RECURSIVE SubSeqs(_, _)
SubSeqs(s, n) ==
    IF s = <<>> \/ n = 0 THEN {<<>>}
    ELSE SubSeqs(Tail(s), n)
         \cup {<<s[1]>> \o t : t \in SubSeqs(Tail(s), n - 1)}

-----------------------------------------------------------------------------
(* Text: a formatted string is a sequence of character codes.              *)

Ch == [dash |-> 45, zero |-> 48, q |-> 81]

RECURSIVE IntToStr(_)
IntToStr(n) ==
    IF n < 10 THEN <<Ch.zero + n>>
    ELSE IntToStr(n \div 10) \o <<Ch.zero + (n % 10)>>

(* format spec 02d: at least two digits, zero padded *)
Pad2(n) == IF n < 10 THEN <<Ch.zero>> \o IntToStr(n) ELSE IntToStr(n)

RECURSIVE StrLess(_, _)
StrLess(a, b) ==
    IF b = <<>> THEN FALSE
    ELSE IF a = <<>> THEN TRUE
    ELSE IF a[1] # b[1] THEN a[1] < b[1]
    ELSE StrLess(Tail(a), Tail(b))

-----------------------------------------------------------------------------
(* Calendar dates are <<year, month, day>>; a date's integer key orders    *)
(* dates chronologically.                                                  *)

DateKey(d) == d[1] * 10000 + d[2] * 100 + d[3]

MonthKey(k) == k[1] * 100 + k[2]

QuarterOf(m) == ((m - 1) \div 3) + 1

-----------------------------------------------------------------------------
(* Tables.  A table has its rows (in file order), the set of source        *)
(* columns it holds, whether its date column can be parsed, and the        *)
(* derived columns that have been written onto it (dcols) with their       *)
(* per-row values.  NoDF is the analyzer's df = None.                      *)

SourceCols ==
    {"orderId", "date", "year", "month", "day", "quarter", "category",
     "subcategory", "product", "qty", "discount", "total", "custId",
     "province", "city"}

DerivedCols == {"hasDiscount", "discountBucket", "festival"}

Row(id, date, cat, sub, prod, qty, disc, total, cust, prov, city) ==
    [id |-> id, date |-> date, cat |-> cat, sub |-> sub, prod |-> prod,
     qty |-> qty, disc |-> disc, total |-> total, cust |-> cust,
     prov |-> prov, city |-> city, day |-> date[3]]

(* the year, month and day columns of the file: the day column is a *)
(* column of its own, which the program never checks against the date *)
FileCalendar(r) == <<r.date[1], r.date[2], r.day>>

RowPool ==
    << Row(1, <<2023, 11, 10>>, "A", "a1", "p1", 2, 65, 60, "c1", "X", "x1"),
       Row(2, <<2022, 2, 3>>, "B", "b1", "p2", 3, 100, 40, "c2", "Y", "y1"),
       Row(3, <<2023, 6, 15>>, "A", "a2", "p3", 1, 75, 40, "c3", "X", "x2"),
       Row(4, <<2023, 11, 10>>, "B", "b1", "p2", 1, 85, 20, "c4", "X", "x1"),
       Row(5, <<2023, 12, 1>>, "C", "c1", "p1", 2, 100, 70, "c1", "Y", "y1") >>

(* the column sets of the files: the full schema, or some columns absent *)
Schemas ==
    {SourceCols}
    \cup {SourceCols \ absent :
            absent \in {{"date"}, {"date", "total"}, {"category"}, {"discount"},
                        {"orderId"}, {"day"}, {"year", "month", "quarter"}}}

NoDF ==
    [isNone |-> TRUE, rows |-> <<>>, cols |-> {}, dateOk |-> TRUE,
     dcols |-> {}, hasDiscount |-> <<>>, discountBucket |-> <<>>,
     festival |-> <<>>]

Frame(rows, cols, dateOk) ==
    [isNone |-> FALSE, rows |-> rows, cols |-> cols, dateOk |-> dateOk,
     dcols |-> {}, hasDiscount |-> <<>>, discountBucket |-> <<>>,
     festival |-> <<>>]

Columns(d) == d.cols \cup d.dcols

(* a table of one order a day over the first n days of January 2023 *)
DailyRows(n) ==
    [i \in 1..n |->
        Row(100 + i, <<2023, 1, i>>, "A", "a1", "p1", 1, 100, 10 + i, "c1", "X", "x1")]

(* the contents a data file can have: every short table under the full   *)
(* schema, the first rows of the pool under each deficient schema, a      *)
(* table whose date column does not parse, and a daily table longer than  *)
(* every forecast horizon                                                 *)
FileTables ==
    {Frame(rows, SourceCols, TRUE) : rows \in SubSeqs(RowPool, MaxRows)}
    \cup {Frame(SubSeq(RowPool, 1, n), cols, TRUE) :
             n \in 0..MaxRows, cols \in Schemas \ {SourceCols}}
    \cup {Frame(<<RowPool[1]>>, SourceCols, FALSE)}
    \* a file whose day column disagrees with its date column
    \cup {Frame(<<[RowPool[1] EXCEPT !.day = 25], RowPool[2]>>, SourceCols, TRUE)}
    \cup {Frame(DailyRows(MaxPeriods + 2), SourceCols, TRUE)}

-----------------------------------------------------------------------------
(* Outcomes of a call: a returned value, a returned None, or a raised      *)
(* exception (its Python type and which message it carries).               *)

NoErr == [type |-> "", msg |-> "", cols |-> {}]

Err(type, msg) == [type |-> type, msg |-> msg, cols |-> {}]

Ok(v) == [kind |-> "ok", err |-> NoErr, val |-> v]

ReturnsNone == [kind |-> "none", err |-> NoErr, val |-> <<>>]

Raise(e) == [kind |-> "err", err |-> e, val |-> <<>>]

(* an outcome together with the stages of the call that were entered *)
Staged(out, stages) ==
    [kind |-> out.kind, err |-> out.err, val |-> out.val, stages |-> stages]

(* an operation's effect: the table it leaves and its outcome *)
Eff(d, out) == [df |-> d, out |-> out]

-----------------------------------------------------------------------------
(* SalesAnalyzer.load_data                                                 *)

LowerSuffix(s) ==
    CASE s = ".CSV" -> ".csv"
      [] s = ".XLSX" -> ".xlsx"
      [] OTHER -> s

Paths ==
    {[exists |-> FALSE, suffix |-> ".csv", table |-> NoDF],
     [exists |-> TRUE, suffix |-> ".txt", table |-> NoDF],
     [exists |-> TRUE, suffix |-> ".XLSX", table |-> Frame(RowPool, SourceCols, TRUE)]}
    \cup {[exists |-> TRUE, suffix |-> ".csv", table |-> t] : t \in FileTables}

(* a loader that keeps the table it already holds *)
LoadDataOnce(d, path) ==
    IF ~path.exists
    THEN Eff(d, Raise(Err("FileNotFoundError", "file_not_found")))
    ELSE IF LowerSuffix(path.suffix) \notin {".csv", ".xlsx", ".xls"}
    THEN Eff(d, Raise(Err("ValueError", "unsupported_format")))
    ELSE IF ~d.isNone THEN Eff(d, ReturnsNone)
    ELSE IF "date" \in path.table.cols /\ ~path.table.dateOk
    THEN Eff(path.table, Raise(Err("ValueError", "date_parse")))
    ELSE Eff(path.table, ReturnsNone)

LoadData(d, path) ==
    IF ~path.exists
    THEN Eff(d, Raise(Err("FileNotFoundError", "file_not_found")))
    ELSE IF LowerSuffix(path.suffix) \notin {".csv", ".xlsx", ".xls"}
    THEN Eff(d, Raise(Err("ValueError", "unsupported_format")))
    ELSE \* self.df is assigned before the date column is converted
         IF "date" \in path.table.cols /\ ~path.table.dateOk
         THEN Eff(path.table, Raise(Err("ValueError", "date_parse")))
         ELSE Eff(path.table, ReturnsNone)

-----------------------------------------------------------------------------
(* SalesAnalyzer.get_sales_by_time                                         *)

NoCat == ""

Units == {"day", "month", "quarter", "year"}

BucketKey(unit, date) ==
    CASE unit = "day" -> date
      [] unit = "month" -> <<date[1], date[2]>>
      [] unit = "quarter" -> <<date[1], QuarterOf(date[2])>>
      [] unit = "year" -> <<date[1]>>

(* groupby sorts its keys ascending: the integer rank of a bucket key *)
KeyRank(unit, key) ==
    CASE unit = "day" -> DateKey(key)
      [] unit = "month" -> MonthKey(key)
      [] unit = "quarter" -> MonthKey(key)
      [] unit = "year" -> key[1]

BucketLabel(unit, key) ==
    CASE unit = "day" ->
           IntToStr(key[1]) \o <<Ch.dash>> \o Pad2(key[2]) \o <<Ch.dash>> \o Pad2(key[3])
      [] unit = "month" -> IntToStr(key[1]) \o <<Ch.dash>> \o Pad2(key[2])
      [] unit = "quarter" -> IntToStr(key[1]) \o <<Ch.dash, Ch.q>> \o IntToStr(key[2])
      [] unit = "year" -> IntToStr(key[1])

(* a grouping with sort = False: the buckets in order of first appearance *)
GroupByTimeUnsorted(rows, unit) ==
    LET keys == {BucketKey(unit, r.date) : r \in Range(rows)}
        at(k) == {i \in DOMAIN rows : BucketKey(unit, rows[i].date) = k}
        first(k) == CHOOSE i \in at(k) : \A j \in at(k) : i <= j
        sorted == SortBy(keys, first)
    IN  [i \in 1..Len(sorted) |->
            [key |-> sorted[i],
             total |-> SumField(SelectSeq(rows,
                          LAMBDA r : BucketKey(unit, r.date) = sorted[i]), "total"),
             label |-> BucketLabel(unit, sorted[i])]]

GroupByTime(rows, unit) ==
    LET keys == {BucketKey(unit, r.date) : r \in Range(rows)}
        sorted == SortBy(keys, LAMBDA k : KeyRank(unit, k))
    IN  [i \in 1..Len(sorted) |->
            [key |-> sorted[i],
             total |-> SumField(SelectSeq(rows,
                          LAMBDA r : BucketKey(unit, r.date) = sorted[i]), "total"),
             label |-> BucketLabel(unit, sorted[i])]]

(* a required-column list that leaves the category out *)
RequiredWithoutCategory == {"date", "total"}

RequiredTimeCols == {"date", "total", "category"}

GetSalesByTime(d, unit, category) ==
    IF d.isNone THEN Raise(Err("ValueError", "not_loaded"))
    ELSE IF Len(d.rows) = 0 THEN Raise(Err("ValueError", "empty_dataset"))
    ELSE IF RequiredTimeCols \ Columns(d) # {}
    THEN Raise([type |-> "ValueError", msg |-> "missing_columns",
                cols |-> RequiredTimeCols \ Columns(d)])
    ELSE IF ~d.dateOk THEN Raise(Err("ValueError", "date_conversion"))
    ELSE IF category # NoCat /\ category \notin {r.cat : r \in Range(d.rows)}
    THEN Raise(Err("ValueError", "unknown_category"))
    ELSE LET data == IF category # NoCat
                     THEN SelectSeq(d.rows, LAMBDA r : r.cat = category)
                     ELSE d.rows
         IN  IF Len(data) = 0 THEN Raise(Err("ValueError", "empty_after_filter"))
             ELSE IF unit \notin Units
             \* the unsupported-unit error is raised inside the try block and
             \* re-raised by its handler as a processing error
             THEN Raise(Err("ValueError", "processing_error"))
             ELSE Ok(GroupByTime(data, unit))

-----------------------------------------------------------------------------
(* Names (categories, products, regions) sort in code-point order.         *)

NameOrder ==
    <<"A", "B", "C", "X", "Y", "a1", "a2", "b1", "c1", "c2", "c3", "c4", "c5",
      "p1", "p2", "p3", "x1", "x2", "y1">>

NameRank(s) == CHOOSE i \in DOMAIN NameOrder : NameOrder[i] = s

NameBase == Len(NameOrder) + 1

(* groupby(key columns)[field].sum(): one entry per key, keys ascending *)
GroupSum(rows, KeyOf(_), Rank(_), field) ==
    LET keys == {KeyOf(r) : r \in Range(rows)}
        sorted == SortBy(keys, Rank)
    IN  [i \in 1..Len(sorted) |->
            [key |-> sorted[i],
             sum |-> SumField(SelectSeq(rows, LAMBDA r : KeyOf(r) = sorted[i]), field)]]

(* sort_values(field, ascending=False): descending, equal values keep their *)
(* order (the sort of a short frame is an insertion sort)                   *)
SortDesc(s, field) ==
    LET n == Len(s)
        idx == SortBy(1..n, LAMBDA i : (0 - s[i][field]) * (n + 1) + i)
    IN  [i \in 1..n |-> s[idx[i]]]

HeadN(s, n) == IF n >= Len(s) THEN s ELSE SubSeq(s, 1, n)

-----------------------------------------------------------------------------
(* SalesAnalyzer.get_sales_by_category                                     *)

GetSalesByCategory(d, sub) ==
    IF d.isNone THEN ReturnsNone
    ELSE IF sub
    THEN IF {"category", "subcategory", "total"} \ Columns(d) # {}
         THEN Raise(Err("KeyError", "column"))
         ELSE Ok(GroupSum(d.rows, LAMBDA r : <<r.cat, r.sub>>,
                          LAMBDA k : NameRank(k[1]) * NameBase + NameRank(k[2]),
                          "total"))
    ELSE IF {"category", "total"} \ Columns(d) # {}
         THEN Raise(Err("KeyError", "column"))
         ELSE Ok(GroupSum(d.rows, LAMBDA r : r.cat, NameRank, "total"))

-----------------------------------------------------------------------------
(* SalesAnalyzer.get_sales_by_region                                       *)

GetSalesByRegion(d, level) ==
    IF d.isNone THEN ReturnsNone
    ELSE IF level \notin {"province", "city"}
    THEN Raise(Err("ValueError", "unsupported_level"))
    ELSE IF {level, "total"} \ Columns(d) # {}
    THEN Raise(Err("KeyError", "column"))
    ELSE Ok(GroupSum(d.rows,
                     LAMBDA r : IF level = "province" THEN r.prov ELSE r.city,
                     NameRank, "total"))

-----------------------------------------------------------------------------
(* SalesAnalyzer.get_top_products                                          *)

GetTopProducts(d, n, measure, category) ==
    IF d.isNone THEN ReturnsNone
    ELSE IF category # NoCat /\ "category" \notin Columns(d)
    THEN Raise(Err("KeyError", "column"))
    ELSE LET data == IF category # NoCat
                     THEN SelectSeq(d.rows, LAMBDA r : r.cat = category)
                     ELSE d.rows
         IN  IF measure = "revenue"
             THEN IF {"product", "total"} \ Columns(d) # {}
                  THEN Raise(Err("KeyError", "column"))
                  ELSE Ok(HeadN(SortDesc(GroupSum(data, LAMBDA r : r.prod,
                                                 NameRank, "total"), "sum"), n))
             ELSE IF measure = "quantity"
             THEN IF {"product", "qty"} \ Columns(d) # {}
                  THEN Raise(Err("KeyError", "column"))
                  ELSE Ok(HeadN(SortDesc(GroupSum(data, LAMBDA r : r.prod,
                                                 NameRank, "qty"), "sum"), n))
             ELSE Raise(Err("ValueError", "unsupported_measure"))

-----------------------------------------------------------------------------
(* Day arithmetic: the proleptic Gregorian ordinal of a date.              *)

IsLeap(y) == (y % 4 = 0 /\ y % 100 # 0) \/ y % 400 = 0

DaysBeforeMonth(y, m) ==
    <<0, 31, 59, 90, 120, 151, 181, 212, 243, 273, 304, 334>>[m]
    + (IF m > 2 /\ IsLeap(y) THEN 1 ELSE 0)

Ordinal(d) ==
    LET y == d[1] - 1
    IN  y * 365 + (y \div 4) - (y \div 100) + (y \div 400)
        + DaysBeforeMonth(d[1], d[2]) + d[3]

MaxInt(S) == CHOOSE x \in S : \A y \in S : y <= x

MinInt(S) == CHOOSE x \in S : \A y \in S : x <= y

RECURSIVE Product(_)
Product(s) == IF s = <<>> THEN 1 ELSE s[1] * Product(Tail(s))

-----------------------------------------------------------------------------
(* SalesAnalyzer.get_customer_segments                                     *)

KMeansRandomState == 42

DefaultClusters == 4

(* one row per customer id, ids ascending *)
CustomerData(rows) ==
    LET ids == SortBy({r.cust : r \in Range(rows)}, NameRank)
        lastDay == MaxInt({Ordinal(r.date) : r \in Range(rows)})
    IN  [i \in 1..Len(ids) |->
            LET own == SelectSeq(rows, LAMBDA r : r.cust = ids[i])
                days == {Ordinal(r.date) : r \in Range(own)}
                span == MaxInt(days) - MinInt(days)
            IN  [cust |-> ids[i], orders |-> Len(own),
                 spend |-> SumField(own, "total"),
                 products |-> Cardinality({r.prod : r \in Range(own)}),
                 recency |-> lastDay - MaxInt(days),
                 active |-> IF span < 1 THEN 1 ELSE span]]

(* KMeans(n_clusters = k, random_state).fit_predict on the standardized    *)
(* features: the library's partition of the customers into k non-empty     *)
(* clusters, a function of the features, k and the random state alone.     *)
(* The stand-in orders the customers by spend and gives the k - 1 lowest   *)
(* a cluster each and the rest the last one, numbered from the state.      *)
KMeansFitPredict(cd, k, randomState) ==
    LET n == Len(cd)
        order == SortBy(1..n, LAMBDA i : cd[i].spend * (n + 1) + i)
        pos(i) == CHOOSE j \in 1..n : order[j] = i
    IN  [i \in 1..n |->
            ((IF pos(i) < k THEN pos(i) ELSE k) - 1 + randomState) % k]

(* twice the median of a non-empty sequence of integers *)
TwiceMedian(vals) ==
    LET n == Len(vals)
        idx == SortBy(1..n, LAMBDA i : vals[i] * (n + 1) + i)
    IN  IF n % 2 = 1 THEN 2 * vals[idx[(n + 1) \div 2]]
        ELSE vals[idx[n \div 2]] + vals[idx[(n \div 2) + 1]]

(* the per-cluster sums of the features and the cluster sizes *)
ClusterFeatures(cd, clusters, k) ==
    [c \in 1..k |->
        LET own == SelectSeq([i \in 1..Len(cd) |-> cd[i] @@ [cluster |-> clusters[i]]],
                             LAMBDA r : r.cluster = c - 1)
        IN  [cluster |-> c - 1, size |-> Len(own),
             spend |-> SumField(own, "spend"), orders |-> SumField(own, "orders"),
             recency |-> SumField(own, "recency")]]

(* the cluster means of a feature, all scaled by the product of the sizes *)
ScaledMeans(cf, field) ==
    LET scale == Product([c \in DOMAIN cf |-> cf[c].size])
    IN  [c \in DOMAIN cf |-> cf[c][field] * (scale \div cf[c].size)]

(* a label is its prefix followed by the two parts of its stem *)
(* a labelling that also counts a mean equal to the median as above it *)
SegmentLabelNonStrict(cf, c) ==
    LET spend == ScaledMeans(cf, "spend")
        orders == ScaledMeans(cf, "orders")
        recency == ScaledMeans(cf, "recency")
        highSpend == 2 * spend[c] >= TwiceMedian(spend)
        highOrders == 2 * orders[c] >= TwiceMedian(orders)
        stem == IF highSpend /\ highOrders THEN <<"high_value", "loyal">>
                ELSE IF highSpend /\ ~highOrders THEN <<"high_value", "low_freq">>
                ELSE IF ~highSpend /\ highOrders THEN <<"low_value", "high_freq">>
                ELSE <<"low_value", "low_freq">>
    IN  IF 2 * recency[c] <= TwiceMedian(recency)
        THEN <<"active">> \o stem
        ELSE <<"at_risk">> \o stem

SegmentLabel(cf, c) ==
    LET spend == ScaledMeans(cf, "spend")
        orders == ScaledMeans(cf, "orders")
        recency == ScaledMeans(cf, "recency")
        highSpend == 2 * spend[c] > TwiceMedian(spend)
        highOrders == 2 * orders[c] > TwiceMedian(orders)
        stem == IF highSpend /\ highOrders THEN <<"high_value", "loyal">>
                ELSE IF highSpend /\ ~highOrders THEN <<"high_value", "low_freq">>
                ELSE IF ~highSpend /\ highOrders THEN <<"low_value", "high_freq">>
                ELSE <<"low_value", "low_freq">>
    IN  IF 2 * recency[c] < TwiceMedian(recency)
        THEN <<"active">> \o stem
        ELSE <<"at_risk">> \o stem

(* a segmentation whose random state is not fixed: it varies with what    *)
(* earlier calls left on the table                                         *)
GetCustomerSegmentsUnseeded(d, k) ==
    IF d.isNone THEN ReturnsNone
    ELSE IF {"custId", "orderId", "total", "product", "date"} \ Columns(d) # {}
    THEN Raise(Err("KeyError", "column"))
    ELSE IF ~d.dateOk THEN Raise(Err("TypeError", "date_arithmetic"))
    ELSE LET cd == CustomerData(d.rows)
         IN  IF Len(cd) < k \/ Len(cd) = 0
             THEN Raise(Err("ValueError", "too_few_samples"))
             ELSE LET clusters == KMeansFitPredict(cd, k, Cardinality(d.dcols))
                      cf == ClusterFeatures(cd, clusters, k)
                  IN  Ok([customers |->
                             [i \in 1..Len(cd) |->
                                 cd[i] @@ [cluster |-> clusters[i],
                                           label |-> SegmentLabel(cf, clusters[i] + 1)]],
                          clusters |-> cf])

GetCustomerSegments(d, k) ==
    IF d.isNone THEN ReturnsNone
    ELSE IF {"custId", "orderId", "total", "product", "date"} \ Columns(d) # {}
    THEN Raise(Err("KeyError", "column"))
    ELSE IF ~d.dateOk THEN Raise(Err("TypeError", "date_arithmetic"))
    ELSE LET cd == CustomerData(d.rows)
         IN  IF Len(cd) < k \/ Len(cd) = 0
             THEN Raise(Err("ValueError", "too_few_samples"))
             ELSE LET clusters == KMeansFitPredict(cd, k, KMeansRandomState)
                      cf == ClusterFeatures(cd, clusters, k)
                  IN  Ok([customers |->
                             [i \in 1..Len(cd) |->
                                 cd[i] @@ [cluster |-> clusters[i],
                                           label |-> SegmentLabel(cf, clusters[i] + 1)]],
                          clusters |-> cf])

-----------------------------------------------------------------------------
(* Derived columns written onto the analyzer's table.                      *)

WithColumn(d, name, vals) == [d EXCEPT !.dcols = @ \cup {name}, ![name] = vals]

(* the rows of a table together with the values of its derived columns *)
Records(d) ==
    [i \in DOMAIN d.rows |->
        d.rows[i] @@
        [hasDiscount |-> IF "hasDiscount" \in d.dcols THEN d.hasDiscount[i] ELSE FALSE,
         discountBucket |-> IF "discountBucket" \in d.dcols
                            THEN d.discountBucket[i] ELSE "nan",
         festival |-> IF "festival" \in d.dcols THEN d.festival[i] ELSE "nan"]]

(* groupby(keys).agg(count of orders, sums): one entry per key, ascending *)
GroupStats(recs, KeyOf(_), Rank(_)) ==
    LET keys == {KeyOf(r) : r \in Range(recs)}
        sorted == SortBy(keys, Rank)
    IN  [i \in 1..Len(sorted) |->
            LET sel == SelectSeq(recs, LAMBDA r : KeyOf(r) = sorted[i])
            IN  [key |-> sorted[i], orders |-> Len(sel),
                 total |-> SumField(sel, "total"), qty |-> SumField(sel, "qty"),
                 disc |-> SumField(sel, "disc")]]

BoolRank(b) == IF b THEN 1 ELSE 0

-----------------------------------------------------------------------------
(* SalesAnalyzer.get_promotion_effect                                      *)

HasDiscountColumn(d) == [i \in DOMAIN d.rows |-> d.rows[i].disc < 100]

GetPromotionEffect(d) ==
    IF d.isNone THEN Eff(d, ReturnsNone)
    ELSE IF "discount" \notin Columns(d)
    THEN Eff(d, Raise(Err("KeyError", "column")))
    ELSE LET d1 == WithColumn(d, "hasDiscount", HasDiscountColumn(d))
         IN  IF {"orderId", "total", "qty", "category"} \ Columns(d1) # {}
             THEN Eff(d1, Raise(Err("KeyError", "column")))
             ELSE Eff(d1, Ok(
                    <<GroupStats(Records(d1), LAMBDA r : r.hasDiscount, BoolRank),
                      GroupStats(Records(d1), LAMBDA r : <<r.cat, r.hasDiscount>>,
                                 LAMBDA k : NameRank(k[1]) * 2 + BoolRank(k[2]))>>))

-----------------------------------------------------------------------------
(* SalesAnalyzer.get_seasonal_trends                                       *)

(* the tags in the code-point order of their names *)
TagOrder == <<"festival618", "double11", "spring", "ordinary">>

TagRank(t) == CHOOSE i \in DOMAIN TagOrder : TagOrder[i] = t

(* a tagging whose Spring Festival window does not look at the year *)
FestivalTagAnyYear(date) ==
    LET m == date[2]
        dd == date[3]
    IN  IF m = 11 /\ dd >= 9 /\ dd <= 12 THEN "double11"
        ELSE IF m = 6 /\ dd >= 10 /\ dd <= 20 THEN "festival618"
        ELSE IF (m = 2 /\ dd <= 7) \/ (m = 1 /\ dd >= 20 /\ dd <= 27) THEN "spring"
        ELSE "ordinary"

FestivalTag(date) ==
    LET y == date[1]
        m == date[2]
        dd == date[3]
        spring == \/ y = 2022 /\ m = 2 /\ dd <= 7
                  \/ y = 2023 /\ m = 1 /\ dd >= 20 /\ dd <= 27
        f618 == m = 6 /\ dd >= 10 /\ dd <= 20
        f1111 == m = 11 /\ dd >= 9 /\ dd <= 12
        t1 == IF spring THEN "spring" ELSE "ordinary"
        t2 == IF f618 THEN "festival618" ELSE t1
    IN  IF f1111 THEN "double11" ELSE t2

(* the tags get_seasonal_trends writes, from the year, month and day columns *)
FestivalColumn(d) == [i \in DOMAIN d.rows |-> FestivalTag(FileCalendar(d.rows[i]))]

FestivalSales(recs) == GroupStats(recs, LAMBDA r : r.festival, TagRank)

(* a tagging written with DataFrame.insert, which refuses a column that *)
(* the table already has                                               *)
GetSeasonalTrendsInsert(d) ==
    IF d.isNone THEN Eff(d, ReturnsNone)
    ELSE IF {"year", "month", "quarter", "day", "total"} \ Columns(d) # {}
    THEN Eff(d, Raise(Err("KeyError", "column")))
    ELSE IF "festival" \in Columns(d)
    THEN Eff(d, Raise(Err("ValueError", "already_exists")))
    ELSE LET d1 == WithColumn(d, "festival", FestivalColumn(d))
         IN  IF {"orderId", "total", "discount"} \ Columns(d1) # {}
             THEN Eff(d1, Raise(Err("KeyError", "column")))
             ELSE Eff(d1, Ok(
                    <<GroupSum(d.rows, LAMBDA r : <<r.date[1], r.date[2]>>,
                               MonthKey, "total"),
                      GroupSum(d.rows, LAMBDA r : <<r.date[1], QuarterOf(r.date[2])>>,
                               MonthKey, "total"),
                      FestivalSales(Records(d1))>>))

GetSeasonalTrends(d) ==
    IF d.isNone THEN Eff(d, ReturnsNone)
    ELSE IF {"year", "month", "quarter", "day", "total"} \ Columns(d) # {}
    THEN Eff(d, Raise(Err("KeyError", "column")))
    ELSE LET d1 == WithColumn(d, "festival", FestivalColumn(d))
         IN  IF {"orderId", "total", "discount"} \ Columns(d1) # {}
             THEN Eff(d1, Raise(Err("KeyError", "column")))
             ELSE Eff(d1, Ok(
                    <<GroupSum(d.rows, LAMBDA r : <<r.date[1], r.date[2]>>,
                               MonthKey, "total"),
                      GroupSum(d.rows, LAMBDA r : <<r.date[1], QuarterOf(r.date[2])>>,
                               MonthKey, "total"),
                      FestivalSales(Records(d1))>>))

-----------------------------------------------------------------------------
(* EcommerceAnalysisApp.update_promotion_analysis: the application's own   *)
(* festival chart.  It tags a copy of the table unless the table already   *)
(* holds a festival column, and it swallows a failure of the aggregation.  *)

UpdatePromotionAnalysis(d) ==
    IF d.isNone THEN ReturnsNone
    ELSE LET \* year, month and day are taken from the date where there is one
             own == [i \in DOMAIN d.rows |->
                        FestivalTag(IF "date" \in Columns(d) THEN d.rows[i].date
                                    ELSE FileCalendar(d.rows[i]))]
             data ==
               IF "festival" \notin Columns(d)
               THEN WithColumn(d, "festival", own)
               ELSE d
             tagFails ==
               /\ "festival" \notin Columns(d)
               /\ IF "date" \in Columns(d) THEN ~d.dateOk
                  ELSE {"year", "month", "day"} \ Columns(d) # {}
         IN  IF tagFails THEN Raise(Err("Exception", "update_promotion"))
             ELSE IF {"orderId", "total", "discount"} \ Columns(data) # {}
             THEN ReturnsNone
             ELSE IF Len(data.rows) = 0 THEN ReturnsNone
             ELSE Ok(FestivalSales(Records(data)))

-----------------------------------------------------------------------------
(* SalesAnalyzer.predict_sales and its three strategies.  A forecast row   *)
(* has its date label, its kind and its actual value (empty for none);     *)
(* the fitted and predicted values are not modelled.                       *)

SeasonalPeriods == 12

Digit(c) == c - Ch.zero

(* pd.to_datetime of a bucket label: YYYY-MM-DD, YYYY-MM or YYYY-Qn *)
ParseLabel(label) ==
    LET y == Digit(label[1]) * 1000 + Digit(label[2]) * 100
             + Digit(label[3]) * 10 + Digit(label[4])
    IN  IF Len(label) = 4 THEN <<y, 1, 1>>
        ELSE IF label[6] = Ch.q THEN <<y, (Digit(label[7]) - 1) * 3 + 1, 1>>
        ELSE IF Len(label) = 7 THEN <<y, Digit(label[6]) * 10 + Digit(label[7]), 1>>
        ELSE <<y, Digit(label[6]) * 10 + Digit(label[7]),
               Digit(label[9]) * 10 + Digit(label[10])>>

AddMonths(y, m, j) ==
    LET t == y * 12 + (m - 1) + j IN <<t \div 12, (t % 12) + 1>>

DaysInMonth(y, m) ==
    IF m = 2 THEN (IF IsLeap(y) THEN 29 ELSE 28)
    ELSE IF m \in {4, 6, 9, 11} THEN 30 ELSE 31

(* date_range(start = last, periods = p + 1, freq = 'M')[1:] as %Y-%m: the *)
(* month ends that follow the month of the last label                      *)
FutureMonthLabels(last, p) ==
    [j \in 1..p |->
        LET ym == AddMonths(last[1], last[2], j)
        IN  IntToStr(ym[1]) \o <<Ch.dash>> \o Pad2(ym[2])]

HistoricalRows(sales) ==
    [i \in 1..Len(sales) |->
        [label |-> sales[i].label, kind |-> "historical", actual |-> <<sales[i].total>>]]

ForecastRows(labels) ==
    [j \in 1..Len(labels) |->
        [label |-> labels[j], kind |-> "forecast", actual |-> <<>>]]

(* result.loc[:n-1, actual] = y on the frame whose index is 0..n-1 followed *)
(* by 0..p-1: the label n-1 is a slice bound only where it occurs once      *)
AssembleForecast(sales, periods) ==
    LET n == Len(sales)
        last == ParseLabel(sales[n].label)
    IN  IF periods >= n
        THEN Raise(Err(IF n = 1 THEN "ValueError" ELSE "KeyError", "actual_slice"))
        ELSE Ok(HistoricalRows(sales) \o ForecastRows(FutureMonthLabels(last, periods)))

PredictWithLinearRegression(sales, periods) ==
    IF periods <= 0
    \* predict on an empty array of future indices
    THEN Staged(Raise(Err("ValueError", "no_samples")), <<"fit", "project">>)
    ELSE Staged(AssembleForecast(sales, periods), <<"fit", "project", "assemble">>)

PredictWithExpSmoothing(sales, periods) ==
    IF Len(sales) < 2 * SeasonalPeriods
    THEN Staged(Raise(Err("ValueError", "too_few_seasonal_cycles")), <<"fit">>)
    ELSE IF periods <= 0
    THEN Staged(Raise(Err("ValueError", "prediction_end_before_start")),
                <<"fit", "project">>)
    ELSE Staged(AssembleForecast(sales, periods), <<"fit", "project", "assemble">>)

(* the ds column: the label as a date, a quarter as its last month *)
ProphetDate(label, freq) ==
    LET y == ParseLabel(label)[1]
    IN  IF freq = "Q" THEN <<y, Digit(label[7]) * 3, 1>>
        ELSE ParseLabel(label)

(* make_future_dataframe: the first periods dates of the frequency that    *)
(* are later than the last ds                                              *)
ProphetFutureDates(last, periods, freq) ==
    [j \in 1..(IF periods > 0 THEN periods ELSE 0) |->
        IF freq = "D"
        THEN LET day == last[3] + j
                 len == DaysInMonth(last[1], last[2])
             IN  IF day <= len THEN <<last[1], last[2], day>>
                 ELSE LET ym == AddMonths(last[1], last[2], 1)
                      IN  <<ym[1], ym[2], day - len>>
        ELSE LET step == IF freq = "Q" THEN 3 ELSE 1
                 first == IF last[3] = DaysInMonth(last[1], last[2]) THEN 1 ELSE 0
                 ym == AddMonths(last[1], last[2], (j - 1 + first) * step)
             IN  <<ym[1], ym[2], DaysInMonth(ym[1], ym[2])>>]

PredictWithProphet(sales, periods, freq) ==
    LET n == Len(sales)
    IN  IF n < 2
        THEN Staged(Raise(Err("ValueError", "less_than_2_rows")), <<"fit">>)
        ELSE IF periods < 0
        THEN Staged(Raise(Err("ValueError", "negative_periods")), <<"fit", "project">>)
        ELSE Staged(Ok([i \in 1..n |->
                           [label |-> ProphetDate(sales[i].label, freq),
                            kind |-> "historical", actual |-> <<sales[i].total>>]]
                       \o ForecastRows(ProphetFutureDates(
                              ProphetDate(sales[n].label, freq), periods, freq))),
                    <<"fit", "project", "assemble">>)

FreqMap(unit) ==
    CASE unit = "day" -> "D"
      [] unit = "month" -> "M"
      [] unit = "quarter" -> "Q"

Methods == {"prophet", "exponential_smoothing", "linear"}

(* a dispatch that fits the default strategy before it looks at the method *)
SelectStrategyFitFirst(sales, periods, method, freq, prophet) ==
    LET run == PredictWithLinearRegression(sales, periods)
    IN  IF method = "linear" THEN run
        ELSE IF method = "exponential_smoothing"
        THEN PredictWithExpSmoothing(sales, periods)
        ELSE IF method = "prophet" /\ prophet
        THEN PredictWithProphet(sales, periods, freq)
        ELSE Staged(Raise(Err("ValueError", IF method = "prophet"
                                            THEN "prophet_unavailable"
                                            ELSE "unsupported_method")),
                    <<"fit">>)

(* a dispatch that does not look at the import flag of the backend *)
SelectStrategyUnguarded(sales, periods, method, freq, prophet) ==
    IF method = "prophet" THEN PredictWithProphet(sales, periods, freq)
    ELSE IF method = "exponential_smoothing"
    THEN PredictWithExpSmoothing(sales, periods)
    ELSE IF method = "linear"
    THEN PredictWithLinearRegression(sales, periods)
    ELSE Staged(Raise(Err("ValueError", "unsupported_method")), <<>>)

(* the strategy branch of predict_sales: the chosen strategy is run on the *)
(* series, or the request is rejected when the method is unknown or is     *)
(* the optional backend that could not be imported                         *)
SelectStrategy(sales, periods, method, freq, prophet) ==
    IF method = "prophet"
    THEN IF ~prophet
         THEN Staged(Raise(Err("ValueError", "prophet_unavailable")), <<>>)
         ELSE PredictWithProphet(sales, periods, freq)
    ELSE IF method = "exponential_smoothing"
    THEN PredictWithExpSmoothing(sales, periods)
    ELSE IF method = "linear"
    THEN PredictWithLinearRegression(sales, periods)
    ELSE Staged(Raise(Err("ValueError", "unsupported_method")), <<>>)

PredictSales(d, unit, category, periods, method, prophet) ==
    IF d.isNone THEN Staged(Raise(Err("ValueError", "not_loaded")), <<"validate">>)
    ELSE LET sales == GetSalesByTime(d, unit, category)
         IN  IF sales.kind = "err" THEN Staged(sales, <<"validate">>)
             ELSE IF unit \notin {"day", "month", "quarter"}
             THEN Staged(Raise(Err("ValueError", "unsupported_forecast_unit")),
                         <<"validate">>)
             ELSE LET run == SelectStrategy(sales.val, periods, method,
                                            FreqMap(unit), prophet)
                  IN  Staged(run, <<"validate", "select">> \o run.stages)

-----------------------------------------------------------------------------
(* SalesAnalyzer.generate_decision_suggestions and its five steps.  An     *)
(* advice text is the sequence of its clauses; a clause is the message it  *)
(* formats, the names and the numbers it inserts.                          *)

Clause(id, names, nums) == [id |-> id, names |-> names, nums |-> nums]

Text(id) == <<Clause(id, <<>>, <<>>)>>

(* num/den rounded to the nearest integer, halves to even (den > 0) *)
RoundDiv(num, den) ==
    LET q == num \div den
        r == num - q * den
    IN  IF 2 * r < den THEN q
        ELSE IF 2 * r > den THEN q + 1
        ELSE IF q % 2 = 0 THEN q ELSE q + 1

(* a local handler: a raised exception becomes the step's fallback text *)
Guarded(e, fallback) ==
    IF e.out.kind = "err" THEN Eff(e.df, Ok(Text(fallback))) ELSE e

(* the advice for the totals of the last two months *)
TrendAdvice(prev, last) ==
    IF prev = 0
    THEN Ok(Text(IF last > 0 THEN "trend_strong_up" ELSE "trend_declining"))
    \* pct_change is the double last / prev - 1; for a growth of exactly one
    \* tenth it is 1.1 - 1 = 0.10000000000000009, which is above the double 0.1
    ELSE IF 10 * (last - prev) >= prev
    THEN Ok(<<Clause("trend_strong_up", <<>>, <<RoundDiv(1000 * (last - prev), prev)>>)>>)
    ELSE IF last - prev > 0
    THEN Ok(<<Clause("trend_mild_up", <<>>, <<RoundDiv(1000 * (last - prev), prev)>>)>>)
    ELSE IF 20 * (last - prev) > 0 - prev
    THEN Ok(<<Clause("trend_flat", <<>>, <<RoundDiv(1000 * (last - prev), prev)>>)>>)
    ELSE Ok(<<Clause("trend_declining", <<>>, <<RoundDiv(1000 * (prev - last), prev)>>)>>)

(* the trend read off the monthly series *)
TrendOfSeries(sales) ==
    IF sales.kind = "err" THEN sales
    ELSE IF Len(sales.val) < 3 THEN Ok(Text("trend_insufficient"))
    ELSE TrendAdvice(sales.val[Len(sales.val) - 1].total,
                     sales.val[Len(sales.val)].total)

(* the body of _analyze_recent_trend inside its try block *)
TrendBody(d, category) == TrendOfSeries(GetSalesByTime(d, "month", category))

(* the trend step without its local handler *)
TrendUnguarded(d, category) == Eff(d, TrendBody(d, category))

AnalyzeRecentTrend(d, category) ==
    Guarded(Eff(d, TrendBody(d, category)), "trend_fallback")

(* the inventory advice for the top products by quantity *)
InventoryAdvice(d, top) ==
    IF top.kind = "err" THEN top
    ELSE IF "discount" \in Columns(d)
    THEN IF top.val # <<>>
         THEN Ok(<<Clause("inventory_top", <<top.val[1].key>>, <<>>),
                   Clause("inventory_monitor", <<>>, <<>>),
                   Clause("inventory_seasonal", <<>>, <<>>)>>)
         ELSE Ok(Text("inventory_insufficient"))
    ELSE IF top.val # <<>>
         THEN Ok(<<Clause("inventory_top_generic", <<top.val[1].key>>, <<>>)>>)
         ELSE Ok(Text("inventory_generic"))

(* the body of _generate_inventory_suggestions inside its try block *)
InventoryBody(d, category) ==
    IF category # NoCat /\ "category" \notin Columns(d)
    THEN Raise(Err("KeyError", "column"))
    ELSE InventoryAdvice(d, GetTopProducts(d, 5, "quantity", category))

GenerateInventorySuggestions(d, category) ==
    Guarded(Eff(d, InventoryBody(d, category)), "inventory_fallback")

(* pd.cut(discount, bins = [0, 0.7, 0.8, 0.9, 1.0]), right-inclusive *)
BucketOrder == <<"deep", "medium", "light", "none">>

(* a bucketing with left-closed intervals, as pd.cut(right = False) *)
DiscountBucketLeftClosed(disc) ==
    IF disc < 0 \/ disc >= 100 THEN "nan"
    ELSE IF disc < 70 THEN "deep"
    ELSE IF disc < 80 THEN "medium"
    ELSE IF disc < 90 THEN "light"
    ELSE "none"

DiscountBucket(disc) ==
    IF disc <= 0 \/ disc > 100 THEN "nan"
    ELSE IF disc <= 70 THEN "deep"
    ELSE IF disc <= 80 THEN "medium"
    ELSE IF disc <= 90 THEN "light"
    ELSE "none"

BucketColumn(d) == [i \in DOMAIN d.rows |-> DiscountBucket(d.rows[i].disc)]

(* groupby(bucket).agg(...): one entry per bucket, the empty ones too *)
DiscountAnalysis(recs) ==
    [b \in DOMAIN BucketOrder |->
        LET sel == SelectSeq(recs, LAMBDA r : r.discountBucket = BucketOrder[b])
        IN  [key |-> BucketOrder[b], orders |-> Len(sel),
             total |-> SumField(sel, "total"), qty |-> SumField(sel, "qty")]]

(* the sentences on the best discount bucket by quantity and by revenue *)
BestBucketClauses(bestQty, bestRev) ==
    IF bestQty = bestRev
    THEN <<Clause("promotion_best_both", <<bestQty>>, <<>>)>>
    ELSE <<Clause("promotion_best_qty", <<bestQty>>, <<>>),
           Clause("promotion_best_revenue", <<bestRev>>, <<>>),
           Clause("promotion_flexible", <<bestQty, bestRev>>, <<>>)>>

BestBuckets(analysis) ==
    BestBucketClauses(SortDesc(analysis, "qty")[1].key,
                      SortDesc(analysis, "total")[1].key)

(* the sentence on the best festival, after get_seasonal_trends *)
WithBestFestival(first, e3) ==
    IF e3.out.kind = "err" THEN e3
    ELSE IF e3.out.val[3] = <<>> THEN Eff(e3.df, Ok(first))
    ELSE Eff(e3.df, Ok(first \o
           <<Clause("promotion_best_festival",
                    <<SortDesc(e3.out.val[3], "total")[1].key>>, <<>>)>>))

(* from the bucket column on *)
PromotionOnBuckets(d2) ==
    WithBestFestival(BestBuckets(DiscountAnalysis(Records(d2))), GetSeasonalTrends(d2))

(* after get_promotion_effect *)
PromotionAfterEffect(e1) ==
    IF e1.out.kind = "err" THEN e1
    ELSE PromotionOnBuckets(WithColumn(e1.df, "discountBucket", BucketColumn(e1.df)))

(* the body of _generate_promotion_suggestions inside its try block; the  *)
(* category it is given is not used                                       *)
PromotionBody(d, category) ==
    IF "discount" \notin Columns(d) THEN Eff(d, Ok(Text("promotion_no_discount")))
    ELSE PromotionAfterEffect(GetPromotionEffect(d))

(* the promotion step without its local handler *)
PromotionUnguarded(d, category) == PromotionBody(d, category)

GeneratePromotionSuggestions(d, category) ==
    Guarded(PromotionBody(d, category), "promotion_fallback")

(* labels in the code-point order of their text *)
LabelRank(label) ==
    (IF label[1] = "active" THEN 0 ELSE 4)
    + (IF label[2] = "low_value"
       THEN (IF label[3] = "low_freq" THEN 1 ELSE 2)
       ELSE (IF label[3] = "low_freq" THEN 3 ELSE 4))

(* the characters of the parts of a label, as code points *)
Glyphs ==
    [active |-> <<27963, 36291>>,
     at_risk |-> <<27969, 22833, 39118, 38505>>,
     high_value |-> <<39640, 20215, 20540>>,
     low_value |-> <<20302, 20215, 20540>>,
     loyal |-> <<24544, 35802, 23458, 25143>>,
     low_freq |-> <<20302, 39057, 23458, 25143>>,
     high_freq |-> <<39640, 39057, 23458, 25143>>]

(* the label as the string the segmentation writes *)
LabelText(label) == Glyphs[label[1]] \o Glyphs[label[2]] \o Glyphs[label[3]]

IsSubstring(sub, text) ==
    \E i \in 0..(Len(text) - Len(sub)) : SubSeq(text, i + 1, i + Len(sub)) = sub

Contains(label, token) == IsSubstring(Glyphs[token], LabelText(label))

(* a matching that takes the first character of a stem for the stem *)
SegmentMessageByFirstGlyph(l, count) ==
    LET high == IsSubstring(<<Glyphs.high_value[1]>>, LabelText(l))
        low == IsSubstring(<<Glyphs.low_value[1]>>, LabelText(l))
    IN  IF low /\ Contains(l, "active")
        THEN <<Clause("customer_upsell", l, <<count>>)>>
        ELSE IF low /\ Contains(l, "at_risk")
        THEN <<Clause("customer_low_cost", l, <<count>>)>>
        ELSE IF high /\ Contains(l, "active")
        THEN <<Clause("customer_vip", l, <<count>>)>>
        ELSE IF high /\ Contains(l, "at_risk")
        THEN <<Clause("customer_retain", l, <<count>>)>>
        ELSE <<>>

(* the sentence for one segment label and the number of its customers *)
SegmentMessage(l, count) ==
    IF Contains(l, "high_value") /\ Contains(l, "active")
    THEN <<Clause("customer_vip", l, <<count>>)>>
    ELSE IF Contains(l, "high_value") /\ Contains(l, "at_risk")
    THEN <<Clause("customer_retain", l, <<count>>)>>
    ELSE IF Contains(l, "low_value") /\ Contains(l, "active")
    THEN <<Clause("customer_upsell", l, <<count>>)>>
    ELSE IF Contains(l, "low_value") /\ Contains(l, "at_risk")
    THEN <<Clause("customer_low_cost", l, <<count>>)>>
    ELSE <<>>

(* the sentences for the labels, in their order *)
SegmentMessages(cust, labels) ==
    LET tail[j \in 0..Len(labels)] ==
            IF j = 0 THEN <<>>
            ELSE tail[j - 1] \o
                 SegmentMessage(labels[j],
                     Cardinality({i \in DOMAIN cust : cust[i].label = labels[j]}))
    IN  tail[Len(labels)]

(* the distinct labels, in the order groupby gives them *)
LabelsIn(cust) == SortBy({cust[i].label : i \in DOMAIN cust}, LabelRank)

CustomerAdvice(seg) ==
    IF seg.kind = "err" THEN seg
    ELSE IF seg.kind = "none" THEN Raise(Err("TypeError", "unpack_none"))
    ELSE Ok(SegmentMessages(seg.val.customers, LabelsIn(seg.val.customers))
            \o Text("customer_lifecycle"))

(* the body of _generate_customer_suggestions inside its try block *)
CustomerBody(d) == CustomerAdvice(GetCustomerSegments(d, DefaultClusters))

GenerateCustomerSuggestions(d) ==
    Guarded(Eff(d, CustomerBody(d)), "customer_fallback")

(* the sentences on the categories, sorted by their sales, best first *)
ProductMix(sorted, total) ==
    <<Clause("product_top", <<sorted[1].key>>,
             IF total = 0 THEN <<>> ELSE <<RoundDiv(1000 * sorted[1].sum, total)>>),
      Clause("product_bottom",
             IF Len(sorted) >= 3
             THEN [j \in 1..3 |-> sorted[Len(sorted) - 3 + j].key]
             ELSE <<sorted[Len(sorted)].key>>,
             <<>>),
      IF total # 0 /\ 10 * sorted[1].sum > 4 * total
      THEN Clause("product_concentrated", <<sorted[1].key>>, <<>>)
      ELSE Clause("product_balanced", <<>>, <<>>)>>

(* the sentence on the hot products, after get_top_products *)
WithHotProducts(mix, hot) ==
    IF hot.kind = "err" THEN hot
    ELSE IF hot.kind = "ok" /\ hot.val # <<>>
    THEN Ok(mix \o <<Clause("product_hot",
                      [j \in 1..Len(hot.val) |-> hot.val[j].key], <<>>)>>)
    ELSE Ok(mix)

ProductAdvice(d, category, cs) ==
    IF cs.kind = "err" THEN cs
    ELSE IF cs.kind = "none" \/ cs.val = <<>> THEN Ok(Text("product_insufficient"))
    ELSE WithHotProducts(ProductMix(SortDesc(cs.val, "sum"), SumField(cs.val, "sum")),
                         GetTopProducts(d, 3, "revenue", category))

(* the body of _generate_product_suggestions inside its try block *)
ProductBody(d, category) == ProductAdvice(d, category, GetSalesByCategory(d, FALSE))

GenerateProductSuggestions(d, category) ==
    Guarded(Eff(d, ProductBody(d, category)), "product_fallback")

StepTypes == <<"trend", "inventory", "promotion", "customer", "product_mix">>

Fallbacks ==
    <<"trend_fallback", "inventory_fallback", "promotion_fallback",
      "customer_fallback", "product_fallback">>

(* the i-th helper call of generate_decision_suggestions *)
Step(i, d, category) ==
    CASE i = 1 -> AnalyzeRecentTrend(d, category)
      [] i = 2 -> GenerateInventorySuggestions(d, category)
      [] i = 3 -> GeneratePromotionSuggestions(d, category)
      [] i = 4 -> GenerateCustomerSuggestions(d)
      [] i = 5 -> GenerateProductSuggestions(d, category)

(* the try block of generate_decision_suggestions from its i-th step on:  *)
(* an exception leaving a helper ends the block with one error entry      *)
RECURSIVE RunSteps(_, _, _, _)
AfterStep(i, category, acc, e) ==
    IF e.out.kind = "err"
    THEN Eff(e.df, Ok(Append(acc, [type |-> "error", advice |-> Text("error")])))
    ELSE RunSteps(i + 1, e.df, category,
                  Append(acc, [type |-> StepTypes[i], advice |-> e.out.val]))

RunSteps(i, d, category, acc) ==
    IF i > Len(StepTypes) THEN Eff(d, Ok(acc))
    ELSE AfterStep(i, category, acc, Step(i, d, category))

GenerateDecisionSuggestions(d, category) ==
    IF d.isNone THEN Eff(d, Raise(Err("ValueError", "not_loaded")))
    ELSE RunSteps(1, d, category, <<>>)

-----------------------------------------------------------------------------
(* The session: one call at a time; result is the outcome in flight to the *)
(* caller.  Two history variables serve the properties: loaded is the file *)
(* table that the last load_data put in place, reloaded tells whether that *)
(* load replaced a table carrying derived columns.                         *)

NoArgs ==
    [unit |-> "", category |-> NoCat, n |-> 0, measure |-> "", level |-> "",
     k |-> 0, periods |-> 0, method |-> "", sub |-> FALSE]

Call(op, args, out) ==
    [op |-> op, args |-> args, kind |-> out.kind, err |-> out.err, val |-> out.val,
     stages |-> IF "stages" \in DOMAIN out THEN out.stages ELSE <<>>]

Idle == Call("idle", NoArgs, ReturnsNone)

UnitArgs == Units \cup {"week"}

CatArgs == {NoCat, "A", "Z"}

(* The load threads of the user interface (DataLoadWorker): where each   *)
(* thread stands, the file it reads, whether its progress dialog is shown, *)
(* and whether the date column of the analyzer's table is still as read.   *)
Workers == 1..MaxWorkers

NoWorkers ==
    [pc |-> [w \in Workers |-> "idle"],
     file |-> [w \in Workers |-> NoDF],
     dialog |-> [w \in Workers |-> FALSE],
     raw |-> FALSE]

Init ==
    /\ df = NoDF
    /\ loaded = NoDF
    /\ reloaded = FALSE
    /\ result = Idle
    /\ prophetAvailable \in BOOLEAN
    /\ worker = NoWorkers

DoLoadData ==
    /\ result = Idle
    /\ \E path \in Paths :
         LET e == LoadData(df, path)
             read == path.exists /\ LowerSuffix(path.suffix) \in {".csv", ".xlsx", ".xls"}
         IN  /\ df' = e.df
             /\ loaded' = IF read THEN path.table ELSE loaded
             /\ reloaded' = IF read THEN df.dcols # {} ELSE reloaded
             /\ result' = Call("load_data", NoArgs, e.out)
    /\ UNCHANGED <<prophetAvailable, worker>>

DoGetSalesByTime ==
    /\ result = Idle
    /\ \E unit \in UnitArgs, category \in CatArgs :
         result' = Call("get_sales_by_time",
                        [NoArgs EXCEPT !.unit = unit, !.category = category],
                        GetSalesByTime(df, unit, category))
    /\ UNCHANGED <<df, loaded, reloaded, prophetAvailable, worker>>

DoGetSalesByCategory ==
    /\ result = Idle
    /\ \E sub \in BOOLEAN :
         result' = Call("get_sales_by_category", [NoArgs EXCEPT !.sub = sub],
                        GetSalesByCategory(df, sub))
    /\ UNCHANGED <<df, loaded, reloaded, prophetAvailable, worker>>

DoGetSalesByRegion ==
    /\ result = Idle
    /\ \E level \in {"province", "city", "district"} :
         result' = Call("get_sales_by_region", [NoArgs EXCEPT !.level = level],
                        GetSalesByRegion(df, level))
    /\ UNCHANGED <<df, loaded, reloaded, prophetAvailable, worker>>

DoGetTopProducts ==
    /\ result = Idle
    /\ \E n \in {1, 10}, measure \in {"revenue", "quantity", "rating"},
          category \in {NoCat, "A"} :
         result' = Call("get_top_products",
                        [NoArgs EXCEPT !.n = n, !.measure = measure,
                                       !.category = category],
                        GetTopProducts(df, n, measure, category))
    /\ UNCHANGED <<df, loaded, reloaded, prophetAvailable, worker>>

DoGetPromotionEffect ==
    /\ result = Idle
    /\ LET e == GetPromotionEffect(df)
       IN  /\ df' = e.df
           /\ result' = Call("get_promotion_effect", NoArgs, e.out)
    /\ UNCHANGED <<loaded, reloaded, prophetAvailable, worker>>

DoGetSeasonalTrends ==
    /\ result = Idle
    /\ LET e == GetSeasonalTrends(df)
       IN  /\ df' = e.df
           /\ result' = Call("get_seasonal_trends", NoArgs, e.out)
    /\ UNCHANGED <<loaded, reloaded, prophetAvailable, worker>>

DoUpdatePromotionAnalysis ==
    /\ result = Idle
    /\ result' = Call("update_promotion_analysis", NoArgs, UpdatePromotionAnalysis(df))
    /\ UNCHANGED <<df, loaded, reloaded, prophetAvailable, worker>>

DoGetCustomerSegments ==
    /\ result = Idle
    /\ \E k \in {2, DefaultClusters} :
         result' = Call("get_customer_segments", [NoArgs EXCEPT !.k = k],
                        GetCustomerSegments(df, k))
    /\ UNCHANGED <<df, loaded, reloaded, prophetAvailable, worker>>

PeriodArgs == {0, 1, 24, MaxPeriods}

MethodArgs == {"prophet", "exponential_smoothing", "linear", "arima"}

DoPredictSales ==
    /\ result = Idle
    /\ \E unit \in Units, periods \in PeriodArgs, method \in MethodArgs :
       \E category \in (IF periods = 1 /\ method = "linear"
                         THEN {NoCat, "A"} ELSE {NoCat}) :
         result' = Call("predict_sales",
                        [NoArgs EXCEPT !.unit = unit, !.category = category,
                                       !.periods = periods, !.method = method],
                        PredictSales(df, unit, category, periods, method,
                                     prophetAvailable))
    /\ UNCHANGED <<df, loaded, reloaded, prophetAvailable, worker>>

DoGenerateDecisionSuggestions ==
    /\ result = Idle
    /\ \E category \in {NoCat, "A", "Z"} :
         LET e == GenerateDecisionSuggestions(df, category)
         IN  /\ df' = e.df
             /\ result' = Call("generate_decision_suggestions",
                               [NoArgs EXCEPT !.category = category], e.out)
    /\ UNCHANGED <<loaded, reloaded, prophetAvailable, worker>>

(* the caller takes the outcome; the next call can start *)
Return ==
    /\ result # Idle
    /\ result' = Idle
    /\ UNCHANGED <<df, loaded, reloaded, prophetAvailable, worker>>

Next ==
    \/ DoLoadData
    \/ DoGetSalesByTime
    \/ DoGetSalesByCategory
    \/ DoGetSalesByRegion
    \/ DoGetTopProducts
    \/ DoPredictSales
    \/ DoGetCustomerSegments
    \/ DoGetPromotionEffect
    \/ DoGetSeasonalTrends
    \/ DoGenerateDecisionSuggestions
    \/ DoUpdatePromotionAnalysis
    \/ Return

Spec == Init /\ [][Next]_vars

-----------------------------------------------------------------------------
(* A second set of data files, for the calendar, the discount scale and    *)
(* the growth of the last month: one order per day of a month of 2022 or   *)
(* 2023, one order per discount rate of a quarter of the scale (in         *)
(* percent), one order per month with given monthly totals.                *)

MonthRows(y, m) ==
    [i \in 1..DaysInMonth(y, m) |->
        Row(1000 + i, <<y, m, i>>, "A", "a1", "p1", 1, 100, 10, "c1", "X", "x1")]

DiscountRows(lo, hi) ==
    [i \in 1..(hi - lo + 1) |->
        Row(2000 + i, <<2023, 3, 15>>, "A", "a1", "p1", 1, lo + i - 1, 10,
            "c1", "X", "x1")]

MonthlyRows(totals) ==
    [i \in 1..Len(totals) |->
        Row(3000 + i, <<2023, i, 15>>, "A", "a1", "p1", 1, 100, totals[i],
            "c1", "X", "x1")]

MonthlyTotals ==
    {<<6000, 4000>>, <<50, 0, 0>>, <<50, 0, 30>>}
    \cup {<<50, 100, last>> :
            last \in {0, 50, 94, 95, 96, 99, 100, 101, 105, 109, 110, 111, 150}}
    \cup {<<50, 6000, 4000>>, <<70, 30, 33>>, <<70, 40, 38>>}

BoundaryTables ==
    {Frame(MonthRows(y, m), SourceCols, TRUE) : y \in {2022, 2023}, m \in 1..12}
    \cup {Frame(DiscountRows(25 * q + 1, 25 * q + 25), SourceCols, TRUE) : q \in 0..3}
    \cup {Frame(MonthlyRows(totals), SourceCols, TRUE) : totals \in MonthlyTotals}

DoLoadBoundaryFile ==
    /\ result = Idle
    /\ \E t \in BoundaryTables :
         LET e == LoadData(df, [exists |-> TRUE, suffix |-> ".csv", table |-> t])
         IN  /\ df' = e.df
             /\ loaded' = t
             /\ reloaded' = (df.dcols # {})
             /\ result' = Call("load_data", NoArgs, e.out)
    /\ UNCHANGED <<prophetAvailable, worker>>

BoundaryNext ==
    \/ DoLoadBoundaryFile
    \/ DoGetSeasonalTrends
    \/ DoGenerateDecisionSuggestions
    \/ Return

BoundarySpec == Init /\ [][BoundaryNext]_vars

-----------------------------------------------------------------------------
(* The application window: EcommerceAnalysisApp.load_data starts a         *)
(* DataLoadWorker thread behind a window-modal progress dialog; the thread *)
(* calls SalesAnalyzer.load_data and then patches the analyzer's table;    *)
(* its signals are handled on the main thread.                             *)

UiTables ==
    {Frame(SubSeq(RowPool, 1, 2), SourceCols, TRUE),
     Frame(SubSeq(RowPool, 2, 4), SourceCols \ {"year", "month", "quarter"}, TRUE),
     Frame(<<RowPool[1]>>, SourceCols, FALSE)}

(* the main window takes input: no window-modal dialog is shown *)
WindowEnabled == \A w \in Workers : ~worker.dialog[w]

(* EcommerceAnalysisApp.load_data: the dialog is shown, the thread started *)
StartLoad ==
    /\ WindowEnabled
    /\ \E w \in Workers, t \in UiTables :
         /\ worker.pc[w] = "idle"
         /\ \A v \in 1..(w - 1) : worker.pc[v] # "idle"
         /\ worker' = [worker EXCEPT !.pc[w] = "read", !.file[w] = t,
                                     !.dialog[w] = TRUE]
    /\ UNCHANGED <<df, loaded, reloaded, result, prophetAvailable>>

(* the cancel button of the progress dialog hides it; the thread goes on *)
CancelProgress ==
    /\ \E w \in Workers :
         /\ worker.dialog[w]
         /\ worker' = [worker EXCEPT !.dialog[w] = FALSE]
    /\ UNCHANGED <<df, loaded, reloaded, result, prophetAvailable>>

(* load_data: self.df = pd.read_csv(file_path) *)
WorkerReadFile ==
    /\ \E w \in Workers :
         /\ worker.pc[w] = "read"
         /\ df' = worker.file[w]
         /\ loaded' = worker.file[w]
         /\ reloaded' = (df.dcols # {})
         /\ worker' = [worker EXCEPT !.pc[w] = "parse", !.raw = TRUE]
    /\ UNCHANGED <<result, prophetAvailable>>

(* the date conversion of load_data, and the same statement in the thread, *)
(* each on the table the analyzer holds at that moment                     *)
WorkerConvertDate ==
    /\ \E w \in Workers :
         /\ worker.pc[w] \in {"parse", "wparse"}
         /\ worker' =
              IF "date" \notin df.cols
              THEN [worker EXCEPT !.pc[w] = IF @ = "parse" THEN "wparse" ELSE "emitted"]
              ELSE IF ~df.dateOk THEN [worker EXCEPT !.pc[w] = "failed"]
              ELSE [worker EXCEPT !.pc[w] = IF @ = "parse" THEN "wparse" ELSE "derive",
                                  !.raw = FALSE]
    /\ UNCHANGED <<df, loaded, reloaded, result, prophetAvailable>>

(* the thread derives year, month and quarter onto the analyzer's table *)
(* and emits its result                                                 *)
WorkerDeriveColumns ==
    /\ \E w \in Workers :
         /\ worker.pc[w] = "derive"
         /\ IF "date" \in df.cols /\ ~worker.raw
            THEN /\ df' = [df EXCEPT !.cols = @ \cup {"year", "month", "quarter"}]
                 /\ worker' = [worker EXCEPT !.pc[w] = "emitted"]
            ELSE /\ df' = df
                 /\ worker' = [worker EXCEPT !.pc[w] = "failed"]
    /\ UNCHANGED <<loaded, reloaded, result, prophetAvailable>>

(* _process_loaded_data and _finalize_data_load on the main thread: the *)
(* analysis is refreshed and the dialog closed                          *)
ProcessLoadedData ==
    /\ result = Idle
    /\ \E w \in Workers, unit \in Units :
         /\ worker.pc[w] = "emitted"
         /\ worker' = [worker EXCEPT !.pc[w] = "idle", !.dialog[w] = FALSE]
         /\ result' = Call("get_sales_by_time", [NoArgs EXCEPT !.unit = unit],
                           GetSalesByTime(df, unit, NoCat))
    /\ UNCHANGED <<df, loaded, reloaded, prophetAvailable>>

(* _handle_load_error on the main thread *)
HandleLoadError ==
    /\ \E w \in Workers :
         /\ worker.pc[w] = "failed"
         /\ worker' = [worker EXCEPT !.pc[w] = "idle", !.dialog[w] = FALSE]
    /\ UNCHANGED <<df, loaded, reloaded, result, prophetAvailable>>

(* the user refreshes the analysis in the main window *)
UiUpdateAnalysis == WindowEnabled /\ ~df.isNone /\ DoGetSalesByTime

UiNext ==
    \/ StartLoad
    \/ CancelProgress
    \/ WorkerReadFile
    \/ WorkerConvertDate
    \/ WorkerDeriveColumns
    \/ ProcessLoadedData
    \/ HandleLoadError
    \/ UiUpdateAnalysis
    \/ Return

UiSpec == Init /\ [][UiNext]_vars

-----------------------------------------------------------------------------
(* The labelling loop of get_customer_segments on its own: the table of    *)
(* cluster means is any table of k clusters over small feature values.     *)

ClusterCells == (0..2) \X (1..2) \X (0..2)

MeanTable(f) ==
    [c \in DOMAIN f |->
        [cluster |-> c - 1, size |-> 1, spend |-> f[c][1],
         orders |-> f[c][2], recency |-> f[c][3]]]

SegmentLabels(cf) == [c \in DOMAIN cf |-> SegmentLabel(cf, c)]

DoLabelSegments ==
    /\ result = Idle
    /\ \E k \in 1..MaxClusters :
         \E f \in [1..k -> ClusterCells] :
            result' = Call("segment_labels", [NoArgs EXCEPT !.k = k],
                           Ok([clusters |-> MeanTable(f),
                               labels |-> SegmentLabels(MeanTable(f))]))
    /\ UNCHANGED <<df, loaded, reloaded, prophetAvailable, worker>>

LabelNext ==
    \/ DoLabelSegments
    \/ Return

LabelSpec == Init /\ [][LabelNext]_vars

-----------------------------------------------------------------------------
(* Vocabulary of the properties.                                           *)

AnalyticOps ==
    {"get_sales_by_time", "get_sales_by_category", "get_sales_by_region",
     "get_top_products", "get_customer_segments", "get_promotion_effect",
     "get_seasonal_trends", "predict_sales", "generate_decision_suggestions"}

(* the class of the error taxonomy that a raised message belongs to *)
ErrorClass(e) ==
    CASE e.msg = "not_loaded" -> "NotLoadedError"
      [] e.msg = "missing_columns" -> "MissingColumnError"
      [] e.msg \in {"empty_dataset", "unknown_category", "empty_after_filter"}
           -> "EmptyResultError"
      [] e.msg = "prophet_unavailable" -> "UnavailableMethodError"
      [] e.msg \in {"unsupported_level", "unsupported_measure",
                    "unsupported_method", "unsupported_forecast_unit"}
           -> "UnsupportedValueError"
      [] OTHER -> "other"

Outcome(r) == [kind |-> r.kind, err |-> r.err, val |-> r.val]

(* the last load_data call succeeded *)
LoadSucceeded == ~loaded.isNone /\ ("date" \in loaded.cols => loaded.dateOk)

DateBefore(a, b) ==
    \/ a[1] < b[1]
    \/ a[1] = b[1] /\ a[2] < b[2]
    \/ a[1] = b[1] /\ a[2] = b[2] /\ a[3] < b[3]

(* the rows of table t that a category filter keeps *)
Filtered(t, category) ==
    IF category = NoCat THEN t.rows
    ELSE SelectSeq(t.rows, LAMBDA r : r.cat = category)

(* the outcome of the body of the i-th step run alone on table t *)
StepAlone(i, t, category) ==
    CASE i = 1 -> TrendBody(t, category)
      [] i = 2 -> InventoryBody(t, category)
      [] i = 3 -> PromotionBody(t, category).out
      [] i = 4 -> CustomerBody(t)
      [] i = 5 -> ProductBody(t, category)

(* the outcome of an operation called on table t *)
Recompute(op, a, t) ==
    CASE op = "get_sales_by_time" -> GetSalesByTime(t, a.unit, a.category)
      [] op = "get_sales_by_category" -> GetSalesByCategory(t, a.sub)
      [] op = "get_sales_by_region" -> GetSalesByRegion(t, a.level)
      [] op = "get_top_products" -> GetTopProducts(t, a.n, a.measure, a.category)
      [] op = "get_customer_segments" -> GetCustomerSegments(t, a.k)
      [] op = "get_promotion_effect" -> GetPromotionEffect(t).out
      [] op = "get_seasonal_trends" -> GetSeasonalTrends(t).out
      [] op = "predict_sales" ->
           Outcome(PredictSales(t, a.unit, a.category, a.periods, a.method,
                                prophetAvailable))
      [] op = "generate_decision_suggestions" ->
           GenerateDecisionSuggestions(t, a.category).out
      [] op = "update_promotion_analysis" -> UpdatePromotionAnalysis(t)

-----------------------------------------------------------------------------
(* C1: on a loaded table generate_decision_suggestions returns exactly     *)
(* five entries, of the types trend, inventory, promotion, customer and    *)
(* product mix in this order, and never an entry of type error.            *)
C1_FiveEntriesInOrder ==
    (result.op = "generate_decision_suggestions" /\ ~df.isNone) =>
        /\ result.kind = "ok"
        /\ Len(result.val) = 5
        /\ [i \in 1..5 |-> result.val[i].type]
             = <<"trend", "inventory", "promotion", "customer", "product_mix">>

(* a run in which at least three of the five steps fell back *)
C1_ManyStepsFailed ==
    /\ result.op = "generate_decision_suggestions"
    /\ result.kind = "ok"
    /\ Len(result.val) = 5
    /\ Cardinality({i \in 1..5 : result.val[i].advice = Text(Fallbacks[i])}) >= 3

(* C2: every step of the generator is fault-isolated: the advice of step i *)
(* is what the step yields run alone on the table as loaded, its fixed     *)
(* fallback text when the step fails, and the steps after a failed step    *)
(* still run.                                                              *)
C2_StepsFaultIsolated ==
    (result.op = "generate_decision_suggestions" /\ ~df.isNone) =>
        \A i \in 1..5 :
            /\ Len(result.val) >= i
            /\ LET alone == StepAlone(i, loaded, result.args.category)
               IN  result.val[i].advice =
                     IF alone.kind = "err"
                     THEN Text(<<"trend_fallback", "inventory_fallback",
                                 "promotion_fallback", "customer_fallback",
                                 "product_fallback">>[i])
                     ELSE alone.val

(* the promotion step failed after writing to the table, and the customer *)
(* and product steps after it produced their own advice                   *)
C2_LaterStepsRan ==
    /\ result.op = "generate_decision_suggestions"
    /\ result.kind = "ok"
    /\ Len(result.val) = 5
    /\ result.val[3].advice = Text("promotion_fallback")
    /\ df.dcols # {}
    /\ result.val[4].advice # Text("customer_fallback")
    /\ result.val[5].advice # Text("product_fallback")

(* C3: no analytic operation changes the loaded table: after any sequence  *)
(* of calls the table has the columns and the cells load_data gave it.     *)
C3_TableAsLoaded ==
    ~df.isNone => (Columns(df) = Columns(loaded) /\ df.rows = loaded.rows)

(* C4: an analytic call outside the generator that fails leaves the table  *)
(* exactly as it was before the call.                                      *)
C4_FailedCallLeavesTable ==
    [][(/\ result'.op \in AnalyticOps \ {"generate_decision_suggestions"}
        /\ result'.kind = "err") => df' = df]_vars

(* C5: the tagging operations are idempotent: run again on the table they  *)
(* left, get_seasonal_trends, get_promotion_effect and the promotion step  *)
(* of the generator leave the same table and return the same result.       *)
C5_TaggingIdempotent ==
    /\ result.op = "get_seasonal_trends" =>
         GetSeasonalTrends(df) = Eff(df, Outcome(result))
    /\ result.op = "get_promotion_effect" =>
         GetPromotionEffect(df) = Eff(df, Outcome(result))
    /\ (result.op = "generate_decision_suggestions" /\ ~df.isNone) =>
         /\ Len(result.val) >= 3
         /\ GeneratePromotionSuggestions(df, result.args.category)
              = Eff(df, Ok(result.val[3].advice))

(* get_seasonal_trends succeeded on a table that all three tagging steps *)
(* had already written                                                   *)
C5_TaggedAgain ==
    /\ result.op = "get_seasonal_trends"
    /\ result.kind = "ok"
    /\ DerivedCols \subseteq df.dcols
    /\ \E i \in DOMAIN df.festival : df.festival[i] # "ordinary"

(* C6: after load_data has succeeded on a new table, every result of an   *)
(* analytic call, and the application's festival chart, is the one         *)
(* computed from the new table alone, and right after the load the table   *)
(* is the file's table, with no derived column of the table it replaced.   *)
C6_ReloadRecomputes ==
    LoadSucceeded =>
        /\ (result.op = "load_data" /\ result.kind = "none") =>
             (df = loaded /\ df.dcols = {})
        /\ result.op \in AnalyticOps =>
             Outcome(result) = Recompute(result.op, result.args, loaded)
        \* the chart is drawn from the new table, or from the tags that
        \* get_seasonal_trends wrote onto the new table
        /\ result.op = "update_promotion_analysis" =>
             Outcome(result) \in {UpdatePromotionAnalysis(loaded),
                                  UpdatePromotionAnalysis(GetSeasonalTrends(loaded).df)}

(* the festival chart drawn right after a load that replaced a table      *)
(* carrying derived columns                                               *)
C6_ChartAfterReload ==
    /\ reloaded
    /\ LoadSucceeded
    /\ df.dcols = {}
    /\ result.op = "update_promotion_analysis"
    /\ result.kind = "ok"

(* C7: the labels of a series of get_sales_by_time are pairwise distinct   *)
(* and strictly increasing in lexicographic order, the buckets are in      *)
(* chronological order, every filtered row lies in one bucket, and the     *)
(* bucket totals add up to the total price of the filtered rows.           *)
C7_SeriesOrderedAndConserving ==
    (result.op = "get_sales_by_time" /\ result.kind = "ok") =>
        LET s == result.val
            rows == Filtered(loaded, result.args.category)
            in(r, i) == BucketKey(result.args.unit, r.date) = s[i].key
        IN  /\ \A i, j \in DOMAIN s :
                 i < j => /\ s[i].label # s[j].label
                          /\ StrLess(s[i].label, s[j].label)
                          /\ \A r1, r2 \in Range(rows) :
                               (in(r1, i) /\ in(r2, j)) => DateBefore(r1.date, r2.date)
            /\ \A r \in Range(rows) : \E i \in DOMAIN s : in(r, i)
            /\ \A i \in DOMAIN s : \E r \in Range(rows) : in(r, i)
            /\ SumField(s, "total") = SumField(rows, "total")

(* a monthly series of at least three buckets, one of them holding more *)
(* than one order                                                       *)
C7_MonthlySeries ==
    /\ result.op = "get_sales_by_time"
    /\ result.kind = "ok"
    /\ result.args.unit = "month"
    /\ Len(result.val) >= 3
    /\ Len(Filtered(loaded, result.args.category)) > Len(result.val)

(* C8: on a loaded table get_sales_by_time returns no series and fails     *)
(* with MissingColumnError listing the fields missing among date, total    *)
(* price and category, or with EmptyResultError when the table has zero    *)
(* rows or the category filter names a category that is not in the table.  *)
C8_TimeSeriesErrors ==
    (result.op = "get_sales_by_time" /\ LoadSucceeded) =>
        LET missing == {"date", "total", "category"} \ loaded.cols
            empty == \/ Len(loaded.rows) = 0
                     \/ /\ result.args.category # NoCat
                        /\ Filtered(loaded, result.args.category) = <<>>
            classes == (IF missing # {} THEN {"MissingColumnError"} ELSE {})
                       \cup (IF empty THEN {"EmptyResultError"} ELSE {})
        IN  classes # {} =>
                /\ result.kind = "err"
                /\ ErrorClass(result.err) \in classes
                /\ ErrorClass(result.err) = "MissingColumnError" =>
                       result.err.cols = missing

(* the call failed listing both missing fields of a table that has rows *)
C8_TwoFieldsMissing ==
    /\ result.op = "get_sales_by_time"
    /\ LoadSucceeded
    /\ Len(loaded.rows) > 0
    /\ result.kind = "err"
    /\ ErrorClass(result.err) = "MissingColumnError"
    /\ result.err.cols = {"date", "total"}

(* C9: every analytic operation called before any table is loaded fails    *)
(* with NotLoadedError and returns no value.                               *)
C9_NotLoadedFails ==
    (result.op \in AnalyticOps /\ df.isNone) =>
        (result.kind = "err" /\ ErrorClass(result.err) = "NotLoadedError")

(* C10: predict_sales with periods outside [1, 24] fails, and so returns   *)
(* no forecast row.                                                        *)
C10_PeriodsOutOfRangeFail ==
    (/\ result.op = "predict_sales"
     /\ ~df.isNone
     /\ result.args.periods \notin 1..24) =>
        ~(/\ result.kind = "ok"
          /\ \E i \in DOMAIN result.val : result.val[i].kind = "forecast")

(* the series a forecast request is made on *)
RequestedSeries == GetSalesByTime(loaded, result.args.unit, result.args.category)

(* C11: for the linear and exponential-smoothing strategies, every series  *)
(* length n the strategy accepts and every periods in [1, 24], periods     *)
(* >= n included, predict_sales returns n + periods rows: the first n      *)
(* historical with the actual values in series order, the last periods     *)
(* forecast with an empty actual value.                                    *)
C11_ForecastRowCount ==
    (/\ result.op = "predict_sales"
     /\ LoadSucceeded
     /\ result.args.unit \in {"day", "month", "quarter"}
     /\ result.args.periods \in 1..24
     /\ RequestedSeries.kind = "ok"
     /\ \/ result.args.method = "linear"
        \/ /\ result.args.method = "exponential_smoothing"
           /\ Len(RequestedSeries.val) >= 2 * 12) =>
        LET sales == RequestedSeries.val
            n == Len(sales)
            p == result.args.periods
        IN  /\ result.kind = "ok"
            /\ Len(result.val) = n + p
            /\ \A i \in 1..n : /\ result.val[i].kind = "historical"
                               /\ result.val[i].actual = <<sales[i].total>>
            /\ \A j \in 1..p : /\ result.val[n + j].kind = "forecast"
                               /\ result.val[n + j].actual = <<>>

StageOrder == <<"validate", "select", "fit", "project", "assemble">>

(* the series the forecast is made on exists and has at least one bucket *)
SeriesNonEmpty(t, a) ==
    /\ ~t.isNone
    /\ GetSalesByTime(t, a.unit, a.category).kind = "ok"
    /\ Len(GetSalesByTime(t, a.unit, a.category).val) > 0

(* C12: predict_sales enters its stages in the order validation, model     *)
(* selection, fit, project, assemble; a model is fitted only if the unit   *)
(* is day, month or quarter, the method is one of the three strategies     *)
(* and the input series is non-empty; a rejected request performs no fit   *)
(* and returns no rows.                                                    *)
C12_ValidateSelectFit ==
    result.op = "predict_sales" =>
        LET a == result.args
            accepted == /\ a.unit \in {"day", "month", "quarter"}
                        /\ a.method \in Methods
                        /\ SeriesNonEmpty(df, a)
            fitted == \E i \in DOMAIN result.stages : result.stages[i] = "fit"
        IN  /\ Len(result.stages) \in 1..Len(StageOrder)
            /\ result.stages = SubSeq(StageOrder, 1, Len(result.stages))
            /\ fitted => accepted
            /\ ~accepted => /\ ~fitted
                            /\ result.kind = "err"
                            /\ result.val = <<>>
            /\ result.kind = "ok" => result.stages = StageOrder

C12_UnknownMethodRejected ==
    /\ result.op = "predict_sales"
    /\ result.args.method = "arima"
    /\ result.args.unit = "month"
    /\ SeriesNonEmpty(df, result.args)
    /\ result.stages = <<"validate", "select">>
    /\ result.kind = "err"

SelectsProphetUnavailable ==
    /\ result.op = "predict_sales"
    /\ ~prophetAvailable
    /\ result.args.method = "prophet"
    /\ result.args.unit \in {"day", "month", "quarter"}

FailsUnavailable ==
    /\ result.kind = "err"
    /\ ErrorClass(result.err) = "UnavailableMethodError"
    /\ result.stages = <<"validate", "select">>

(* C13 as stated: with the backend unavailable, method 'prophet' fails     *)
(* with UnavailableMethodError for every loaded table and every valid      *)
(* unit and horizon.                                                       *)
C13_UnavailableOnEveryTable ==
    (SelectsProphetUnavailable /\ ~df.isNone /\ result.args.periods \in 1..24)
        => FailsUnavailable

(* C13, amended: with the backend unavailable, method 'prophet' fails      *)
(* with UnavailableMethodError, without a fit and without any other error, *)
(* for every loaded table that passes input validation (its series for     *)
(* the unit and category exists) and every valid unit and horizon; the     *)
(* other two strategies are never refused as unavailable and are run.      *)
C13_UnavailableAfterValidation ==
    /\ (SelectsProphetUnavailable /\ SeriesNonEmpty(df, result.args))
         => FailsUnavailable
    /\ (/\ result.op = "predict_sales"
        /\ ~prophetAvailable
        /\ result.args.method \in Methods \ {"prophet"}
        /\ result.args.unit \in {"day", "month", "quarter"}
        /\ SeriesNonEmpty(df, result.args))
         => /\ ErrorClass(result.err) # "UnavailableMethodError"
            /\ \E i \in DOMAIN result.stages : result.stages[i] = "fit"

C13_ProphetRefused ==
    /\ SelectsProphetUnavailable
    /\ SeriesNonEmpty(df, result.args)
    /\ result.args.periods \in 1..24
    /\ FailsUnavailable

(* the call passes a value outside the enumeration of its parameter, on a *)
(* loaded table on which the call with a known value is not rejected       *)
UnknownEnumValue ==
    LET a == result.args
    IN  \/ /\ result.op = "get_sales_by_time"
           /\ a.unit \notin Units
           /\ SeriesNonEmpty(df, [a EXCEPT !.unit = "month"])
        \/ /\ result.op = "get_top_products"
           /\ a.measure \notin {"revenue", "quantity"}
           /\ ~df.isNone
           /\ a.category # NoCat => "category" \in df.cols
        \/ /\ result.op = "get_sales_by_region"
           /\ a.level \notin {"province", "city"}
           /\ ~df.isNone
        \/ /\ result.op = "predict_sales"
           /\ a.method \notin Methods
           /\ a.unit \in {"day", "month", "quarter"}
           /\ SeriesNonEmpty(df, a)

(* C14: an unknown enum value (unit of get_sales_by_time, measure of       *)
(* get_top_products, level of get_sales_by_region, method of               *)
(* predict_sales) fails with UnsupportedValueError and returns no result.  *)
C14_UnknownEnumUnsupported ==
    UnknownEnumValue =>
        /\ result.kind = "err"
        /\ ErrorClass(result.err) = "UnsupportedValueError"
        /\ result.val = <<>>

(* the festival windows in the order the rules are listed *)
WindowNames == <<"spring", "festival618", "double11">>

InWindow(i, date) ==
    LET y == date[1]
        m == date[2]
        dd == date[3]
    IN  CASE i = 1 -> \/ y = 2022 /\ m = 2 /\ dd <= 7
                      \/ y = 2023 /\ m = 1 /\ 20 <= dd /\ dd <= 27
          [] i = 2 -> m = 6 /\ 10 <= dd /\ dd <= 20
          [] i = 3 -> m = 11 /\ 9 <= dd /\ dd <= 12

BucketEdges == <<0, 70, 80, 90, 100>>

(* C16: the discount buckets have right-inclusive edges 0.7, 0.8, 0.9 and  *)
(* 1.0: every rate in (0, 1] lies in exactly one bucket; 0.65, 0.75, 0.85  *)
(* and 1.0 lie in the four buckets in order; each edge value belongs to    *)
(* the bucket of the deeper discount.                                      *)
C16_RightInclusiveBuckets ==
    "discountBucket" \in df.dcols =>
        \A i \in DOMAIN df.rows :
            LET r == df.rows[i].disc
                in == {b \in 1..4 : BucketEdges[b] < r /\ r <= BucketEdges[b + 1]}
            IN  (0 < r /\ r <= 100) =>
                  /\ Cardinality(in) = 1
                  /\ \A b \in in : df.discountBucket[i] = BucketOrder[b]
                  /\ r = 65 => df.discountBucket[i] = "deep"
                  /\ r = 75 => df.discountBucket[i] = "medium"
                  /\ r = 85 => df.discountBucket[i] = "light"
                  /\ r = 100 => df.discountBucket[i] = "none"
                  /\ \A b \in 1..3 :
                       r = BucketEdges[b + 1] => df.discountBucket[i] = BucketOrder[b]

C16_EdgeBucketed ==
    /\ result.op = "generate_decision_suggestions"
    /\ "discountBucket" \in df.dcols
    /\ \E i, j \in DOMAIN df.rows :
         /\ df.rows[i].disc = 70 /\ df.discountBucket[i] = "deep"
         /\ df.rows[j].disc = 71 /\ df.discountBucket[j] = "medium"

(* the customers of a segmentation that are in cluster c *)
Members(cust, c) == SelectSeq(cust, LAMBDA r : r.cluster = c)

(* the mean of a feature in cluster b is below its mean in cluster c *)
MeanBelow(cust, f, b, c) ==
    SumField(Members(cust, b), f) * Len(Members(cust, c))
        < SumField(Members(cust, c), f) * Len(Members(cust, b))

(* the mean of cluster c is above (below) the median of the means of the   *)
(* clusters in cs: at least half of them have a smaller (larger) mean      *)
AboveMedian(cust, f, cs, c) ==
    2 * Cardinality({b \in cs : MeanBelow(cust, f, b, c)}) >= Cardinality(cs)

BelowMedian(cust, f, cs, c) ==
    2 * Cardinality({b \in cs : MeanBelow(cust, f, c, b)}) >= Cardinality(cs)

(* C17: get_customer_segments gives every distinct customer id exactly one *)
(* cluster index in 0..k-1; the label of a cluster is a function of the    *)
(* per-cluster means alone: high-value iff its mean spend is above the     *)
(* median of the cluster mean spends, loyal / high-frequency iff its mean  *)
(* order count is above the median, active iff its mean recency is below   *)
(* the median and at-risk otherwise.                                       *)
C17_LabelsFromClusterMeans ==
    (result.op = "get_customer_segments" /\ result.kind = "ok") =>
        LET cust == result.val.customers
            k == result.args.k
            cs == {cust[i].cluster : i \in DOMAIN cust}
        IN  /\ {cust[i].cust : i \in DOMAIN cust} = {r.cust : r \in Range(df.rows)}
            /\ \A i, j \in DOMAIN cust : cust[i].cust = cust[j].cust => i = j
            /\ \A i \in DOMAIN cust :
                 LET c == cust[i].cluster
                     label == cust[i].label
                 IN  /\ c \in 0..(k - 1)
                     /\ label[2] = "high_value" <=> AboveMedian(cust, "spend", cs, c)
                     /\ label[3] \in {"loyal", "high_freq"}
                          <=> AboveMedian(cust, "orders", cs, c)
                     /\ label[1] = "active" <=> BelowMedian(cust, "recency", cs, c)
                     /\ label[1] \in {"active", "at_risk"}
                     /\ label[2] \in {"high_value", "low_value"}
                     /\ label[3] \in {"loyal", "high_freq", "low_freq"}

C17_SharedCluster ==
    /\ result.op = "get_customer_segments"
    /\ result.kind = "ok"
    /\ \E i, j \in DOMAIN result.val.customers :
         /\ i # j
         /\ result.val.customers[i].cluster = result.val.customers[j].cluster
         /\ result.val.customers[i].spend # result.val.customers[j].spend
         /\ result.val.customers[i].label[3] = "loyal"
    /\ \E i \in DOMAIN result.val.customers :
         result.val.customers[i].label[1] = "at_risk"

(* the monthly series the trend step of the last call read *)
TrendSeries == GetSalesByTime(loaded, "month", result.args.category)

(* the branch of the trend advice for the growth (last - prev) / prev *)
GrowthBranch(prev, last) ==
    CASE 10 * (last - prev) > prev -> "trend_strong_up"
      [] last > prev /\ 10 * (last - prev) <= prev -> "trend_mild_up"
      [] last <= prev /\ 20 * (last - prev) > 0 - prev -> "trend_flat"
      [] 20 * (last - prev) <= 0 - prev -> "trend_declining"

(* C18: the trend step takes exactly one branch by the growth g of the     *)
(* most recent monthly bucket against the one before: g > 10% strong       *)
(* upward, 0 < g <= 10% mild upward, -5% < g <= 0 flat or slightly down,   *)
(* g <= -5% declining.                                                     *)
C18_BranchByGrowth ==
    (/\ result.op = "generate_decision_suggestions"
     /\ LoadSucceeded
     /\ TrendSeries.kind = "ok"
     /\ Len(TrendSeries.val) >= 3
     /\ TrendSeries.val[Len(TrendSeries.val) - 1].total > 0) =>
        LET n == Len(TrendSeries.val)
            advice == result.val[1].advice
        IN  /\ Len(advice) = 1
            /\ advice[1].id = GrowthBranch(TrendSeries.val[n - 1].total,
                                           TrendSeries.val[n].total)

(* C19: for a table whose monthly series has exactly the two buckets      *)
(* 6,000 and 4,000 the trend suggestion reports the decline of the second  *)
(* month, (4000 - 6000) / 6000 = -33.3%, with the text of the declining    *)
(* branch.                                                                 *)
C19_TwoMonthDecline ==
    (/\ result.op = "generate_decision_suggestions"
     /\ LoadSucceeded
     /\ TrendSeries.kind = "ok"
     /\ [i \in DOMAIN TrendSeries.val |-> TrendSeries.val[i].total] = <<6000, 4000>>) =>
        result.val[1].advice = <<Clause("trend_declining", <<>>, <<333>>)>>

(* the rows get_top_products ranks, and the measure of a product in them *)
RankedRows == Filtered(df, result.args.category)

MeasureOf(prod) ==
    SumField(SelectSeq(RankedRows, LAMBDA r : r.prod = prod),
             IF result.args.measure = "revenue" THEN "total" ELSE "qty")

FirstOccurrence(prod) ==
    CHOOSE i \in DOMAIN RankedRows :
        /\ RankedRows[i].prod = prod
        /\ \A j \in 1..(i - 1) : RankedRows[j].prod # prod

(* C20: get_top_products(n, measure, category) returns at most n products, *)
(* ordered by the measure non-increasing, holding the n largest; products  *)
(* with equal measure appear in the order of their first occurrence in the *)
(* input table.                                                            *)
C20_TopProductsStable ==
    (result.op = "get_top_products" /\ result.kind = "ok") =>
        LET top == result.val
            prods == {r.prod : r \in Range(RankedRows)}
            shown == {top[i].key : i \in DOMAIN top}
        IN  /\ Len(top) <= result.args.n
            /\ Len(top) = IF Cardinality(prods) < result.args.n
                          THEN Cardinality(prods) ELSE result.args.n
            /\ shown \subseteq prods
            /\ \A i \in DOMAIN top : top[i].sum = MeasureOf(top[i].key)
            /\ \A i, j \in DOMAIN top : i < j => top[i].sum >= top[j].sum
            /\ \A q \in prods \ shown, i \in DOMAIN top : MeasureOf(q) <= top[i].sum
            /\ \A i, j \in DOMAIN top :
                 (i < j /\ top[i].sum = top[j].sum)
                     => FirstOccurrence(top[i].key) < FirstOccurrence(top[j].key)

(* the revenue of a category in the loaded table *)
CategoryRevenue(cat) ==
    SumField(SelectSeq(loaded.rows, LAMBDA r : r.cat = cat), "total")

(* the product-mix step of the last call produced its own advice *)
ProductMixAdvised ==
    /\ result.op = "generate_decision_suggestions"
    /\ result.kind = "ok"
    /\ LoadSucceeded
    /\ Len(result.val) = 5
    /\ result.val[5].advice # Text("product_fallback")
    /\ result.val[5].advice # Text("product_insufficient")

(* C21: the product-mix step names the category with the highest revenue   *)
(* share as top category, calls out the min(3, c) lowest-revenue of the c   *)
(* categories, warns of over-concentration exactly when the top share is    *)
(* strictly above 40% and gives the balanced text otherwise, and names the  *)
(* top-3 products by revenue.                                               *)
C21_ProductMixAdvice ==
    ProductMixAdvised =>
        LET advice == result.val[5].advice
            cats == {r.cat : r \in Range(loaded.rows)}
            c == Cardinality(cats)
            total == SumField(loaded.rows, "total")
            top == advice[1].names[1]
            bottom == Range(advice[2].names)
            hot == GetTopProducts(loaded, 3, "revenue", result.args.category)
        IN  /\ Len(advice) >= 3
            /\ advice[1].id = "product_top"
            /\ top \in cats
            /\ \A x \in cats : CategoryRevenue(x) <= CategoryRevenue(top)
            /\ advice[1].nums = <<RoundDiv(1000 * CategoryRevenue(top), total)>>
            /\ advice[2].id = "product_bottom"
            /\ bottom \subseteq cats
            /\ Cardinality(bottom) = (IF c < 3 THEN c ELSE 3)
            /\ Len(advice[2].names) = Cardinality(bottom)
            /\ \A x \in bottom, y \in cats \ bottom :
                 CategoryRevenue(x) <= CategoryRevenue(y)
            /\ advice[3].id = IF 10 * CategoryRevenue(top) > 4 * total
                              THEN "product_concentrated" ELSE "product_balanced"
            /\ hot.kind = "ok" /\ hot.val # <<>> =>
                 /\ Len(advice) = 4
                 /\ advice[4].id = "product_hot"
                 /\ advice[4].names = [j \in DOMAIN hot.val |-> hot.val[j].key]

(* C22: after a successful load the table has its date column parsed   *)
(* and holds year, month and quarter columns, derived from the date where *)
(* the input lacks them.                                                  *)
C22_LoadNormalizes ==
    (/\ result.op = "load_data"
     /\ result.kind = "none"
     /\ ~df.isNone
     /\ "date" \in df.cols) =>
        /\ df.dateOk
        /\ {"year", "month", "quarter"} \subseteq df.cols

CategoryTable == [loaded EXCEPT !.rows = Filtered(loaded, result.args.category)]

(* C24: when generate_decision_suggestions is called with a category, the  *)
(* steps that take the category (trend, inventory, promotion, product mix) *)
(* analyse only the records of that category: their advice is the advice   *)
(* computed from the rows of that category alone.                          *)
C24_StepsUseCategoryOnly ==
    (/\ result.op = "generate_decision_suggestions"
     /\ LoadSucceeded
     /\ "category" \in loaded.cols
     /\ result.args.category # NoCat
     /\ Filtered(loaded, result.args.category) # <<>>) =>
        \A i \in {1, 2, 3, 5} :
            LET alone == StepAlone(i, CategoryTable, result.args.category)
            IN  result.val[i].advice =
                  IF alone.kind = "err" THEN Text(Fallbacks[i]) ELSE alone.val

(* a load thread runs; it is in progress once it has replaced the table *)
Running(w) == worker.pc[w] \in {"read", "parse", "wparse", "derive"}

InProgress(w) == worker.pc[w] \in {"parse", "wparse", "derive"}

(* C25: the application serializes access to the loaded table: no analytic *)
(* operation runs against the analyzer's table while a background load is  *)
(* between replacing the table and finishing its derivation, and two loads *)
(* never run at the same time against the analyzer.                        *)
C25_LoadsSerialized ==
    [][/\ (result = Idle /\ result' # Idle /\ result'.op \in AnalyticOps) =>
              \A w \in Workers : ~InProgress(w)
       /\ Cardinality({w \in Workers : Running(w)'}) <= 1]_vars

(* C26: a load_data call that fails, whatever the reason, leaves the table *)
(* the analyzer held before the call in place.                             *)
C26_FailedLoadKeepsTable ==
    [][(result = Idle /\ result'.op = "load_data" /\ result'.kind = "err") =>
           df' = df]_vars

(* the bucket of the unit that comes right after a bucket *)
NextBucketKey(unit, key) ==
    CASE unit = "day" ->
           IF key[3] < DaysInMonth(key[1], key[2])
           THEN <<key[1], key[2], key[3] + 1>>
           ELSE AddMonths(key[1], key[2], 1) \o <<1>>
      [] unit = "month" -> AddMonths(key[1], key[2], 1)
      [] unit = "quarter" ->
           IF key[2] < 4 THEN <<key[1], key[2] + 1>> ELSE <<key[1] + 1, 1>>

RECURSIVE FollowingKey(_, _, _)
FollowingKey(unit, key, j) ==
    IF j = 0 THEN key ELSE NextBucketKey(unit, FollowingKey(unit, key, j - 1))

(* C27: for the linear and exponential-smoothing strategies and the units  *)
(* day, month and quarter, the labels of the forecast rows are the periods *)
(* consecutive buckets of the requested unit right after the last          *)
(* historical bucket, written as the historical labels are.                *)
C27_ForecastLabelsFollow ==
    (/\ result.op = "predict_sales"
     /\ LoadSucceeded
     /\ result.args.method \in {"linear", "exponential_smoothing"}
     /\ result.args.unit \in {"day", "month", "quarter"}
     /\ result.kind = "ok") =>
        LET sales == RequestedSeries.val
            n == Len(sales)
        IN  \A j \in 1..(Len(result.val) - n) :
                result.val[n + j].label =
                    BucketLabel(result.args.unit,
                                FollowingKey(result.args.unit, sales[n].key, j))

LabelledHigh == {c \in DOMAIN result.val.labels : result.val.labels[c][2] = "high_value"}

LabelledLow == {c \in DOMAIN result.val.labels : result.val.labels[c][2] = "low_value"}

LabelledAtRisk == {c \in DOMAIN result.val.labels : result.val.labels[c][1] = "at_risk"}

(* C28: for every k >= 1 and every table of cluster means, at most         *)
(* floor(k/2) clusters get the high-value stem, at least one gets the      *)
(* low-value stem, and at least one gets the at-risk prefix: a cluster     *)
(* with the largest mean recency is never active.                          *)
C28_LabelCounts ==
    result.op = "segment_labels" =>
        LET cf == result.val.clusters
            k == Len(cf)
        IN  /\ Cardinality(LabelledHigh) <= k \div 2
            /\ Cardinality(LabelledLow) >= 1
            /\ Cardinality(LabelledAtRisk) >= 1
            /\ \A c \in 1..k :
                   (\A o \in 1..k : cf[o].recency <= cf[c].recency) =>
                       result.val.labels[c][1] = "at_risk"

(* four clusters of which two are high-value and one is active *)
C28_HalfHighValue ==
    /\ result.op = "segment_labels"
    /\ Len(result.val.clusters) = 4
    /\ Cardinality(LabelledHigh) = 2
    /\ Cardinality(LabelledAtRisk) = 3

(* the customers of the default segmentation of the loaded table *)
DefaultSegments == GetCustomerSegments(loaded, DefaultClusters)

SegmentLabelsOf(seg) == {seg.val.customers[i].label : i \in DOMAIN seg.val.customers}

StemsIn(l) == {t \in {"high_value", "low_value"} : IsSubstring(Glyphs[t], LabelText(l))}

PrefixesIn(l) == {t \in {"active", "at_risk"} : IsSubstring(Glyphs[t], LabelText(l))}

(* the labels the labelling can write: a prefix and one of four stems *)
AllLabels ==
    {<<p>> \o st : p \in {"active", "at_risk"},
                   st \in {<<"high_value", "loyal">>, <<"high_value", "low_freq">>,
                           <<"low_value", "high_freq">>, <<"low_value", "low_freq">>}}

(* the tailored message of a label: by its stem and its prefix *)
BranchOf(l) ==
    IF l[2] = "high_value"
    THEN (IF l[1] = "active" THEN "customer_vip" ELSE "customer_retain")
    ELSE (IF l[1] = "active" THEN "customer_upsell" ELSE "customer_low_cost")

(* C29: every label the segmentation produces contains exactly one of the *)
(* stems high-value / low-value and exactly one of the prefixes active /   *)
(* at-risk, so the customer advice is one tailored message per distinct    *)
(* label, the one of its stem and prefix, followed by the general          *)
(* lifecycle suggestion as its last clause.                                *)
C29_OneMessagePerLabel ==
    (/\ result.op = "generate_decision_suggestions"
     /\ LoadSucceeded
     /\ result.kind = "ok"
     /\ Len(result.val) >= 4
     /\ DefaultSegments.kind = "ok") =>
        LET labels == SegmentLabelsOf(DefaultSegments)
            advice == result.val[4].advice
            n == Len(advice)
        IN  /\ labels \subseteq AllLabels
            /\ \A l \in AllLabels : /\ StemsIn(l) = {l[2]}
                                    /\ PrefixesIn(l) = {l[1]}
                                    /\ Len(SegmentMessage(l, 1)) = 1
                                    /\ SegmentMessage(l, 1)[1].id = BranchOf(l)
            /\ n = Cardinality(labels) + 1
            /\ advice[n] = Clause("customer_lifecycle", <<>>, <<>>)
            /\ \A l \in labels :
                   \E j \in 1..(n - 1) :
                       /\ advice[j].names = l
                       /\ advice[j].id = BranchOf(l)
                       /\ \A o \in 1..(n - 1) : advice[o].names = l => o = j

(* advice on a segmentation with a high-value low-frequency label, whose *)
(* string shares characters with the low-value stem                      *)
C29_SharedGlyphsAdvised ==
    /\ result.op = "generate_decision_suggestions"
    /\ LoadSucceeded
    /\ result.kind = "ok"
    /\ Len(result.val) >= 4
    /\ DefaultSegments.kind = "ok"
    /\ \E l \in SegmentLabelsOf(DefaultSegments) : l[2] = "high_value" /\ l[3] = "low_freq"
    /\ Len(result.val[4].advice) >= 3

(* C30: the result of an analytic call, and of the application's festival *)
(* chart, depends on the loaded source table and the arguments alone:     *)
(* whatever calls came before, the call returns what it returns on the    *)
(* table as loaded; the earlier calls left the rows and the source        *)
(* columns alone, and no result reads the derived columns they left.      *)
C30_HistoryIndependent ==
    (LoadSucceeded /\ result.op \in AnalyticOps \cup {"update_promotion_analysis"}) =>
        /\ df.rows = loaded.rows
        /\ df.cols = loaded.cols
        /\ Recompute(result.op, result.args, loaded) =
               [kind |-> result.kind, err |-> result.err, val |-> result.val]

====
